---- MODULE Spec2Model ----
(***************************************************************************)
(* A model of lupinus, the API server testing tool: the Validator class    *)
(* (schema validation, component resolution, the sequence executor).       *)
(*                                                                         *)
(* JSON values are tagged records.  Numbers are kept in tenths (n = 15 is  *)
(* 1.5), so that integers and fractions are both exact.  String values are *)
(* sequences of one-character strings; identifiers that the program only   *)
(* compares (property names, methods, content types, type names) are kept  *)
(* as atomic strings.                                                      *)
(***************************************************************************)
EXTENDS Integers, Sequences, FiniteSets, TLC

VARIABLES
    spec,       \* Validator.spec: the contract, or JNull when none was given
    testSet,    \* Validator.testSet: the test set, or JNull when none was given
    server,     \* the responses the API server under test may give
    pc,         \* where the run is: new, ready, case, step, await, unwind, end, idle
    outcome,    \* "none", then how the constructor or validate() ended
    caseIndex,  \* executeTestCases: index
    stepIndex,  \* invoke: index
    context,    \* invoke: context, the response bodies of the case so far
    thrown,     \* what invoke threw to executeTestCases, or "none"
    pending,    \* invoke: the locals that live across await Http.request
    requests,   \* history: the calls of Http.request
    received,   \* history: the responses Http.request returned
    entered,    \* history: the indexes executeTestCases was called with
    log,        \* history: the lines written to the logger
    vData,      \* validateJson: the data argument
    vSchema,    \* validateJson: the schema argument
    vCast,      \* validateJson: the enableCast argument
    vResult,    \* validateJson: "none" before the call, then its outcome
    loaded,     \* history: the test set as the constructor received it
    eDefinition, \* evalBrackets / replaceBrackets: the definition argument
    eResponse,  \* evalBrackets: the response argument
    eResult,    \* NotCalled, then what evalBrackets returned or threw
    eReplaced,  \* NotCalled, then what replaceBrackets returned or threw
    frames      \* validateJson: the calls that are still to be made, the next one first

execVars == <<testSet, server, pc, outcome, caseIndex, stepIndex, context, thrown, pending,
              requests, received, entered, log, loaded>>

valVars == <<vData, vSchema, vCast, vResult>>

evalVars == <<eDefinition, eResponse, eResult, eReplaced>>

vars == <<spec, execVars, valVars, evalVars, frames>>

----------------------------------------------------------------------------
(* JSON values *)

JNull == [t |-> "null"]
JBool(b) == [t |-> "bool", b |-> b]
JNum(n) == [t |-> "num", n |-> n]
JNaN == [t |-> "nan"]
JStr(s) == [t |-> "str", s |-> s]
JArr(a) == [t |-> "arr", a |-> a]
JObj(o) == [t |-> "obj", o |-> o]

\* The order in which the keys of an object are enumerated (Object.keys):
\* the objects of the model are written with their keys in this order.
KeyOrder == <<"0", "id", "name", "access_token", "extra">>

\* The array index i (from 1 in the model) as the key Object.keys gives it.
IndexKey(i) == CASE i = 1 -> "0" [] i = 2 -> "1" [] OTHER -> "2"

\* typeof data
TypeOf(data) ==
    CASE data.t = "null" -> "object"
      [] data.t = "bool" -> "boolean"
      [] data.t = "num" -> "number"
      [] data.t = "nan" -> "number"
      [] data.t = "str" -> "string"
      [] data.t = "arr" -> "object"
      [] data.t = "obj" -> "object"

\* Object.keys(data), for a non-null object or an array
ObjectKeys(data) ==
    IF data.t = "obj" THEN SelectSeq(KeyOrder, LAMBDA k : k \in DOMAIN data.o)
    ELSE IF data.t = "arr" THEN [i \in 1..Len(data.a) |-> IndexKey(i)]
    ELSE <<>>

\* data[key], for a key of ObjectKeys(data)
Member(data, key) ==
    IF data.t = "obj" THEN data.o[key]
    ELSE data.a[CHOOSE i \in 1..Len(data.a) : IndexKey(i) = key]

----------------------------------------------------------------------------
(* Conversions of the language: String(x), Number(x) *)

Digits == <<"0", "1", "2", "3", "4", "5", "6", "7", "8", "9">>

IsDigit(c) == \E d \in 1..10 : Digits[d] = c

DigitValue(c) == (CHOOSE d \in 1..10 : Digits[d] = c) - 1

RECURSIVE NatChars(_)
\* the decimal digits of a natural number
NatChars(n) == IF n < 10 THEN <<Digits[n + 1]>> ELSE NatChars(n \div 10) \o <<Digits[(n % 10) + 1]>>

RECURSIVE NatValue(_)
\* the natural number a non-empty sequence of digits denotes
NatValue(cs) ==
    IF Len(cs) = 1 THEN DigitValue(cs[1])
    ELSE NatValue(SubSeq(cs, 1, Len(cs) - 1)) * 10 + DigitValue(cs[Len(cs)])

\* Number.prototype.toString, for a number kept in tenths
NumChars(n) ==
    LET a == IF n < 0 THEN -n ELSE n
        whole == NatChars(a \div 10)
        frac == IF a % 10 = 0 THEN <<>> ELSE <<".", Digits[(a % 10) + 1]>>
    IN (IF n < 0 THEN <<"-">> ELSE <<>>) \o whole \o frac

AllDigits(cs) == Len(cs) > 0 /\ \A i \in 1..Len(cs) : IsDigit(cs[i])

\* Number(string), for the strings of the model: an optional sign, digits,
\* and at most one fractional digit; every other text of the model is NaN.
StringToNumber(cs) ==
    LET neg == Len(cs) > 0 /\ cs[1] = "-"
        body == IF neg THEN SubSeq(cs, 2, Len(cs)) ELSE cs
        sign == IF neg THEN -1 ELSE 1
    IN IF Len(cs) = 0 THEN JNum(0)
       ELSE IF AllDigits(body) THEN JNum(sign * NatValue(body) * 10)
       ELSE IF Len(body) >= 3 /\ body[Len(body) - 1] = "."
               /\ AllDigits(SubSeq(body, 1, Len(body) - 2)) /\ IsDigit(body[Len(body)])
            THEN JNum(sign * (NatValue(SubSeq(body, 1, Len(body) - 2)) * 10
                              + DigitValue(body[Len(body)])))
       ELSE IF Len(body) >= 2 /\ body[Len(body)] = "."
               /\ AllDigits(SubSeq(body, 1, Len(body) - 1))
            THEN JNum(sign * NatValue(SubSeq(body, 1, Len(body) - 1)) * 10)
       ELSE JNaN

RECURSIVE JsToString(_)
RECURSIVE JoinComma(_)
\* Array.prototype.join(","): null elements print as the empty string
JoinComma(a) ==
    IF Len(a) = 0 THEN <<>>
    ELSE LET h == IF a[1].t = "null" THEN <<>> ELSE JsToString(a[1])
         IN IF Len(a) = 1 THEN h ELSE h \o <<",">> \o JoinComma(Tail(a))

\* String(data) / data.toString(), for data that is not null
JsToString(data) ==
    CASE data.t = "str" -> data.s
      [] data.t = "num" -> NumChars(data.n)
      [] data.t = "nan" -> <<"N", "a", "N">>
      [] data.t = "bool" -> IF data.b THEN <<"t", "r", "u", "e">> ELSE <<"f", "a", "l", "s", "e">>
      [] data.t = "arr" -> JoinComma(data.a)
      [] data.t = "obj" -> <<"[", "o", "b", "j", "e", "c", "t", " ", "O", "b", "j", "e", "c", "t", "]">>
      [] data.t = "null" -> <<"n", "u", "l", "l">>

\* Number(data)
JsNumber(data) ==
    CASE data.t = "num" -> data
      [] data.t = "nan" -> data
      [] data.t = "null" -> JNum(0)
      [] data.t = "bool" -> IF data.b THEN JNum(10) ELSE JNum(0)
      [] data.t = "str" -> StringToNumber(data.s)
      [] data.t = "arr" -> StringToNumber(JoinComma(data.a))
      [] data.t = "obj" -> JNaN

----------------------------------------------------------------------------
(* Schemas are records that hold the keywords they declare: type, oneOf,   *)
(* anyOf, allOf, ref (the keyword $ref), properties, items, enum and the   *)
(* length, item and numeric bounds.  A $ref is kept as the pair of its     *)
(* first 21 characters (prefix) and the rest (name).  The schemas of the   *)
(* model declare neither pattern nor format.                               *)

Has(r, f) == f \in DOMAIN r

ComponentPrefix == "#/components/schemas/"

Ref(name) == [prefix |-> ComponentPrefix, name |-> name]

\* What validateJson returns or throws
Ok == "ok"
SchemaInvalid == "Schema is invalid."
ValidationError == "Data and schema do not match."
ThrownUndefined == "undefined"
TypeError == "TypeError"

\* getComponent(path)
GetComponent(path) ==
    IF spec = JNull \/ ~Has(spec, "components") THEN JNull
    ELSE IF ~Has(spec.components, "schemas") THEN JNull
    ELSE IF path.prefix = ComponentPrefix
         THEN IF path.name \in DOMAIN spec.components.schemas
              THEN spec.components.schemas[path.name]
              ELSE JNull
         ELSE JNull

\* The first result of a sequence that is not Ok: the error a forEach over
\* the elements throws, or Ok when no element throws.
FirstFailure(rs) ==
    LET results == rs \o <<>>
    IN IF \A i \in DOMAIN results : results[i] = Ok THEN Ok
       ELSE results[CHOOSE i \in DOMAIN results :
                        results[i] # Ok /\ \A j \in 1..(i - 1) : results[j] = Ok]

\* schema.type == null
SchemaTypeMissingMut(schema) == FALSE

SchemaTypeMissing(schema) == ~Has(schema, "type")

\* a property or item schema that is a $ref is replaced by its component
\* when the component exists
ResolveValueSchema(valueSchema) ==
    IF Has(valueSchema, "ref")
    THEN LET c == GetComponent(valueSchema.ref)
         IN IF c # JNull THEN c ELSE valueSchema
    ELSE valueSchema

\* comparisons of a number (or NaN) with a bound of the schema
NumAbove(data, bound) == data.t = "num" /\ data.n > bound
NumBelow(data, bound) == data.t = "num" /\ data.n < bound
NumAtLeast(data, bound) == data.t = "num" /\ data.n >= bound

\* the bound checks shared by the number and the integer branch
NumberBounds(data, schema) ==
    IF Has(schema, "maximum") /\ NumAbove(data, schema.maximum) THEN ValidationError
    ELSE IF Has(schema, "minimum") /\ NumBelow(data, schema.minimum) THEN ValidationError
    ELSE IF Has(schema, "exclusiveMaximum") /\ NumAtLeast(data, schema.exclusiveMaximum)
         THEN ValidationError
    ELSE IF Has(schema, "exclusiveMinimum") /\ NumBelow(data, schema.exclusiveMinimum)
         THEN ValidationError
    ELSE Ok

\* the string branch, after the cast
StringChecks(data, schema) ==
    IF TypeOf(data) # "string" THEN ValidationError
    ELSE IF Has(schema, "maxLength") /\ Len(data.s) > schema.maxLength THEN ValidationError
    ELSE IF Has(schema, "minLength") /\ Len(data.s) < schema.minLength THEN ValidationError
    ELSE IF Has(schema, "enum") /\ ~(\E i \in DOMAIN schema.enum : schema.enum[i] = data)
         THEN ValidationError
    ELSE Ok

RECURSIVE ValidateJson(_, _, _)

\* schema.oneOf.some(...) / schema.anyOf.some(...): a branch that throws
\* anything counts as false; the branches get no enableCast
SomeBranch(data, branches) == \E i \in DOMAIN branches : ValidateJson(data, branches[i], FALSE) = Ok

\* schema.allOf.every(...)
EveryBranch(data, branches) == \A i \in DOMAIN branches : ValidateJson(data, branches[i], FALSE) = Ok

\* The composition keywords.  The catch clause's parameter shadows the
\* variable `error` declared outside, which is still undefined when it is
\* thrown.
Composition(data, schema) ==
    IF Has(schema, "oneOf")
    THEN IF Len(schema.oneOf) = 0 THEN SchemaInvalid
         ELSE IF SomeBranch(data, schema.oneOf) THEN Ok ELSE ThrownUndefined
    ELSE IF Has(schema, "anyOf")
    THEN IF Len(schema.anyOf) = 0 THEN SchemaInvalid
         ELSE IF SomeBranch(data, schema.anyOf) THEN Ok ELSE ThrownUndefined
    ELSE IF Has(schema, "allOf")
    THEN IF Len(schema.allOf) = 0 THEN SchemaInvalid
         ELSE IF EveryBranch(data, schema.allOf) THEN Ok ELSE ThrownUndefined
    ELSE Ok

\* the array branch
ArrayChecks(data, schema) ==
    IF data.t # "arr" THEN ValidationError
    ELSE IF Has(schema, "maxItems") /\ Len(data.a) > schema.maxItems THEN ValidationError
    ELSE IF Has(schema, "minItems") /\ Len(data.a) < schema.minItems THEN ValidationError
    ELSE IF Has(schema, "items")
         THEN LET valueSchema == ResolveValueSchema(schema.items)
              IN FirstFailure([i \in 1..Len(data.a) |-> ValidateJson(data.a[i], valueSchema, FALSE)])
    ELSE Ok

\* one key of the object branch
PropertyCheckMut(data, schema, key) ==
    IF ~Has(schema, "properties") THEN Ok
    ELSE IF key \notin DOMAIN schema.properties THEN Ok
    ELSE ValidateJson(Member(data, key), ResolveValueSchema(schema.properties[key]), FALSE)

PropertyCheck(data, schema, key) ==
    IF ~Has(schema, "properties") THEN Ok
    ELSE IF key \notin DOMAIN schema.properties THEN ValidationError
    ELSE ValidateJson(Member(data, key), ResolveValueSchema(schema.properties[key]), FALSE)

\* the object branch
ObjectChecks(data, schema) ==
    IF data.t = "null" \/ TypeOf(data) # "object" THEN ValidationError
    ELSE LET keys == ObjectKeys(data)
         IN FirstFailure([i \in 1..Len(keys) |-> PropertyCheck(data, schema, keys[i])])

\* schema.type, undefined when the node declares none
SchemaType(schema) == IF Has(schema, "type") THEN schema.type ELSE "undefined"

\* the dispatch on schema.type
TypeChecks(data, schema, enableCast) ==
    CASE SchemaType(schema) = "array" -> ArrayChecks(data, schema)
      [] SchemaType(schema) = "object" -> ObjectChecks(data, schema)
      [] SchemaType(schema) = "string" ->
            IF enableCast /\ data.t = "null" THEN TypeError
            ELSE StringChecks(IF enableCast THEN JStr(JsToString(data)) ELSE data, schema)
      [] SchemaType(schema) = "number" ->
            LET d == IF enableCast THEN JsNumber(data) ELSE data
            IN IF TypeOf(d) # "number" THEN ValidationError ELSE NumberBounds(d, schema)
      [] SchemaType(schema) = "integer" ->
            IF TypeOf(data) # "number" THEN ValidationError
            ELSE IF data.t = "num" /\ data.n % 10 # 0 THEN ValidationError
            ELSE NumberBounds(data, schema)
      [] SchemaType(schema) = "boolean" ->
            IF TypeOf(data) # "boolean" THEN ValidationError ELSE Ok
      [] SchemaType(schema) = "null" ->
            IF data.t # "null" THEN ValidationError ELSE Ok
      [] OTHER -> Ok

\* the body of validateJson
ValidateBody(data, schema, enableCast) ==
    LET comp == IF schema = JNull THEN TypeError ELSE Composition(data, schema)
    IN IF comp # Ok THEN comp
       ELSE IF Has(schema, "ref") /\ GetComponent(schema.ref) = JNull THEN SchemaInvalid
       ELSE LET resolved == IF Has(schema, "ref") THEN GetComponent(schema.ref) ELSE schema
            IN IF SchemaTypeMissing(resolved) THEN SchemaInvalid
               ELSE TypeChecks(data, resolved, enableCast)

\* validateJson(data, schema, key, enableCast); key only labels the message.
\* The arguments are values when the body runs.
ValidateJson(data, schema, enableCast) ==
    CHOOSE result \in {ValidateBody(d, s, enableCast) : d \in {data}, s \in {schema}} : TRUE

----------------------------------------------------------------------------
(* Strings: sequences of characters *)

\* the characters of an identifier (a property, parameter or header name)
KeyChars(k) ==
    CASE k = "0" -> <<"0">>
      [] k = "id" -> <<"i", "d">>
      [] k = "name" -> <<"n", "a", "m", "e">>
      [] k = "access_token" -> <<"a", "c", "c", "e", "s", "s", "_", "t", "o", "k", "e", "n">>
      [] k = "extra" -> <<"e", "x", "t", "r", "a">>

IsKey(cs) == \E i \in DOMAIN KeyOrder : KeyChars(KeyOrder[i]) = cs

KeyOf(cs) == KeyOrder[CHOOSE i \in DOMAIN KeyOrder : KeyChars(KeyOrder[i]) = cs]

\* s.startsWith(prefix)
StartsWith(cs, prefix) == Len(cs) >= Len(prefix) /\ SubSeq(cs, 1, Len(prefix)) = prefix

\* the first index at or after `from` where `pattern` occurs in cs, or 0
IndexOf(cs, pattern, from) ==
    LET hits == {i \in from..(Len(cs) - Len(pattern) + 1) : SubSeq(cs, i, i + Len(pattern) - 1) = pattern}
    IN IF hits = {} THEN 0 ELSE CHOOSE i \in hits : \A j \in hits : i <= j

\* s.replace(pattern, replacement) with a string pattern: the first
\* occurrence only
ReplaceFirst(cs, pattern, replacement) ==
    LET i == IndexOf(cs, pattern, 1)
    IN IF i = 0 THEN cs
       ELSE SubSeq(cs, 1, i - 1) \o replacement \o SubSeq(cs, i + Len(pattern), Len(cs))

RECURSIVE Trim(_)
\* s.trim()
Trim(cs) ==
    IF cs = <<>> THEN cs
    ELSE IF cs[1] = " " THEN Trim(Tail(cs))
    ELSE IF cs[Len(cs)] = " " THEN Trim(SubSeq(cs, 1, Len(cs) - 1))
    ELSE cs

\* the characters encodeURIComponent leaves as they are, among those of the
\* model
Unreserved ==
    {"a", "b", "c", "d", "e", "f", "g", "h", "i", "j", "k", "l", "m", "n", "o", "p", "q",
     "r", "s", "t", "u", "v", "w", "x", "y", "z", "A", "B", "N", "O", "_", "-", ".", "!",
     "~", "*", "'", "(", ")", "0", "1", "2", "3", "4", "5", "6", "7", "8", "9"}

\* the escape of a reserved character of the model
PercentEscape(c) ==
    CASE c = " " -> <<"%", "2", "0">>
      [] c = "/" -> <<"%", "2", "F">>
      [] c = "{" -> <<"%", "7", "B">>
      [] c = "}" -> <<"%", "7", "D">>
      [] c = "[" -> <<"%", "5", "B">>
      [] c = "]" -> <<"%", "5", "D">>
      [] c = ":" -> <<"%", "3", "A">>
      [] c = "," -> <<"%", "2", "C">>
      [] c = "=" -> <<"%", "3", "D">>
      [] OTHER -> <<"%", "3", "F">>

RECURSIVE EncodeURIComponent(_)
EncodeURIComponent(cs) ==
    IF cs = <<>> THEN <<>>
    ELSE (IF cs[1] \in Unreserved THEN <<cs[1]>> ELSE PercentEscape(cs[1])) \o EncodeURIComponent(Tail(cs))

----------------------------------------------------------------------------
(* Placeholders: replaceBrackets and replaceContext *)

\* The results of string operations that can throw: Ok and the string, or
\* the error.
Str(cs) == [err |-> Ok, s |-> cs]
\* no result yet
NotCalled == [err |-> "none"]
Thrown(e) == [err |-> e, s |-> <<>>]

JsonPathError == "obj needs to be an object"

\* JSONPath.query(obj, path)[0] or null, for the paths of the model: a member
\* name, optionally after "$.".  The library refuses an obj that is not an
\* object.
QueryFirst(obj, path) ==
    LET member == IF StartsWith(path, <<"$", ".">>) THEN SubSeq(path, 3, Len(path)) ELSE path
    IN IF obj.t = "obj" /\ IsKey(member) /\ KeyOf(member) \in DOMAIN obj.o
       THEN obj.o[KeyOf(member)]
       ELSE JNull

ContextPrefix == <<"c", "o", "n", "t", "e", "x", "t", "[">>

PathChars ==
    (Unreserved \ {"-", "~", "'"}) \cup {"[", "]", "@", "<", ">", "="}

ReplaceContextMut(definition, ctx) == Str(definition)

\* replaceContext(definition, context): a definition of the form
\* context[N].path is replaced by the first match of path in context[N],
\* printed as a string; any other definition is returned as it is.
ReplaceContext(definition, ctx) ==
    LET close == IndexOf(definition, <<"]">>, 1)
        digits == SubSeq(definition, Len(ContextPrefix) + 1, close - 1)
        path == SubSeq(definition, close + 2, Len(definition))
        matches ==
            /\ StartsWith(definition, ContextPrefix)
            /\ close > 0
            /\ AllDigits(digits)
            /\ Len(definition) >= close + 2
            /\ definition[close + 1] = "."
            /\ \A i \in DOMAIN path : path[i] \in PathChars
    IN IF ~matches THEN Str(definition)
       ELSE IF NatValue(digits) >= Len(ctx) THEN Thrown(JsonPathError)
       ELSE IF ctx[NatValue(digits) + 1].t \notin {"obj", "arr"} THEN Thrown(JsonPathError)
       ELSE Str(JsToString(QueryFirst(ctx[NatValue(digits) + 1], path)))

RECURSIVE ReplaceBrackets(_, _)
\* replaceBrackets(definition, context): every group {target}, target being
\* one or more characters other than "}", is replaced by
\* replaceContext(target, context); the braces go with it.
ReplaceBrackets(definition, ctx) ==
    IF definition = <<>> THEN Str(<<>>)
    ELSE LET close == IndexOf(definition, <<"}">>, 2)
         IN IF definition[1] = "{" /\ close > 2
            THEN LET head == ReplaceContext(SubSeq(definition, 2, close - 1), ctx)
                     rest == ReplaceBrackets(SubSeq(definition, close + 1, Len(definition)), ctx)
                 IN IF head.err # Ok THEN head
                    ELSE IF rest.err # Ok THEN rest
                    ELSE Str(head.s \o rest.s)
            ELSE LET rest == ReplaceBrackets(Tail(definition), ctx)
                 IN IF rest.err # Ok THEN rest ELSE Str(<<definition[1]>> \o rest.s)

----------------------------------------------------------------------------
(* Assertions: replaceResponse, castAsComparable and evalBrackets.  The     *)
(* JSONPath library is not part of the program; it is modelled for the     *)
(* paths of the model: members separated by ".", each an identifier, an    *)
(* integer or "*", optionally after "$".                                   *)

PathParseError == "Parse error"

Letters ==
    {"a", "b", "c", "d", "e", "f", "g", "h", "i", "j", "k", "l", "m", "n", "o", "p", "q",
     "r", "s", "t", "u", "v", "w", "x", "y", "z", "A", "B", "N", "O", "_"}

\* the pieces of cs between the occurrences of the character sep
RECURSIVE Split(_, _)
Split(cs, sep) ==
    LET i == IndexOf(cs, <<sep>>, 1)
    IN IF i = 0 THEN <<cs>>
       ELSE <<SubSeq(cs, 1, i - 1)>> \o Split(SubSeq(cs, i + 1, Len(cs)), sep)

\* a member of a path: an identifier, an integer without leading zero, or "*"
IsMember(cs) ==
    \/ cs = <<"*">>
    \/ Len(cs) > 0 /\ cs[1] \in Letters /\ \A i \in DOMAIN cs : cs[i] \in Letters \/ IsDigit(cs[i])
    \/ AllDigits(cs) /\ (Len(cs) = 1 \/ cs[1] # "0")

\* the members of a path, without the leading "$"
PathMembers(path) ==
    IF path = <<"$">> THEN <<>>
    ELSE IF StartsWith(path, <<"$", ".">>) THEN Split(SubSeq(path, 3, Len(path)), ".")
    ELSE Split(path, ".")

\* the parser of the library accepts the path
IsPath(path) == Len(path) > 0 /\ \A i \in DOMAIN PathMembers(path) : IsMember(PathMembers(path)[i])

\* the children of a value, in the order of its keys
Children(value) == [i \in DOMAIN ObjectKeys(value) |-> Member(value, ObjectKeys(value)[i])]

RECURSIVE Descend(_, _)
\* the values reached from the values vs along the members ms
Descend(vs, ms) ==
    IF ms = <<>> \/ vs = <<>> THEN vs
    ELSE LET v == Head(vs)
             here == IF v.t \notin {"obj", "arr"} THEN <<>>
                     ELSE IF Head(ms) = <<"*">> THEN Children(v)
                     ELSE IF v.t = "obj" /\ IsKey(Head(ms)) /\ KeyOf(Head(ms)) \in DOMAIN v.o
                     THEN <<v.o[KeyOf(Head(ms))]>>
                     ELSE IF v.t = "arr" /\ AllDigits(Head(ms)) /\ NatValue(Head(ms)) < Len(v.a)
                     THEN <<v.a[NatValue(Head(ms)) + 1]>>
                     ELSE <<>>
         IN Descend(here, Tail(ms)) \o Descend(Tail(vs), ms)

\* JSONPath.query(obj, path), for an obj that is an object and a path that
\* parses
QueryMatches(obj, path) == Descend(<<obj>>, PathMembers(path))

\* a JSON value or the error thrown instead
Val(v) == [err |-> Ok, v |-> v]
ThrownVal(e) == [err |-> e, v |-> JNull]

\* replaceResponse(definition, response): the first match of the path
\* `definition` in the response, the definition itself when there is none
ReplaceResponse(definition, response) ==
    IF response.t \notin {"obj", "arr"} THEN ThrownVal(JsonPathError)
    ELSE IF ~IsPath(definition) THEN ThrownVal(PathParseError)
    ELSE IF QueryMatches(response, definition) = <<>> THEN Val(JStr(definition))
    ELSE Val(QueryMatches(response, definition)[1])

\* the characters of the model in the order of their code units
CharOrder ==
    <<" ", "!", "\"", "$", "%", "'", "(", ")", "*", "+", ",", "-", ".", "/",
      "0", "1", "2", "3", "4", "5", "6", "7", "8", "9", ":", "<", "=", ">", "?", "@",
      "A", "B", "C", "D", "E", "F", "G", "H", "I", "J", "K", "L", "M", "N", "O", "P", "Q",
      "R", "S", "T", "U", "V", "W", "X", "Y", "Z", "[", "]", "_",
      "a", "b", "c", "d", "e", "f", "g", "h", "i", "j", "k", "l", "m", "n", "o", "p", "q",
      "r", "s", "t", "u", "v", "w", "x", "y", "z", "{", "}", "~">>

CharRank(c) == CHOOSE i \in DOMAIN CharOrder : CharOrder[i] = c

RECURSIVE TextLess(_, _)
\* a < b for two strings
TextLess(a, b) ==
    IF b = <<>> THEN FALSE
    ELSE IF a = <<>> THEN TRUE
    ELSE IF a[1] = b[1] THEN TextLess(Tail(a), Tail(b))
    ELSE CharRank(a[1]) < CharRank(b[1])

\* /^[0-9.]+$/.test(text)
IsDigitsAndDots(cs) == Len(cs) > 0 /\ \A i \in DOMAIN cs : IsDigit(cs[i]) \/ cs[i] = "."

\* the date-time pattern of castAsComparable, for the form that ends in Z
IsDateTime(cs) ==
    /\ Len(cs) = 20
    /\ \A i \in {1, 2, 3, 4, 6, 7, 9, 10, 12, 13, 15, 16, 18, 19} : IsDigit(cs[i])
    /\ cs[5] = "-" /\ cs[8] = "-" /\ cs[11] \in {"T", "t"}
    /\ cs[14] = ":" /\ cs[17] = ":" /\ cs[20] \in {"Z", "z"}

\* new Date(data).getTime(): the instant is kept as its text, the date-times
\* of the model being valid and in the same zone
JTime(cs) == [t |-> "time", s |-> SubSeq(cs, 1, 10) \o <<"T">> \o SubSeq(cs, 12, 19) \o <<"Z">>]

\* castAsComparable(data)
CastAsComparableMut(data) == data

CastAsComparable(data) ==
    IF IsDigitsAndDots(JsToString(data)) THEN JsNumber(data)
    ELSE IF IsDateTime(JsToString(data)) THEN JTime(JsToString(data))
    ELSE IF data = JStr(<<"n", "u", "l", "l">>) THEN JNull
    ELSE data

\* ToNumber of a cast operand that is not an instant; an instant is a number
\* of milliseconds above every number of the model
OperandNumber(a) == IF a.t = "time" THEN JNaN ELSE JsNumber(a)

\* a == b of the language, for two cast operands; two objects are equal
\* when they are the same object, which for the operands of the model is
\* when they are the same value
LooseEquals(a, b) ==
    IF a.t = "nan" \/ b.t = "nan" THEN FALSE
    ELSE IF a.t = "null" \/ b.t = "null" THEN a.t = b.t
    ELSE IF a.t = b.t THEN a = b
    ELSE IF a.t = "time" \/ b.t = "time" THEN FALSE
    ELSE IF a.t \in {"obj", "arr"} /\ b.t = "str" THEN JsToString(a) = b.s
    ELSE IF b.t \in {"obj", "arr"} /\ a.t = "str" THEN JsToString(b) = a.s
    ELSE OperandNumber(a).t = "num" /\ OperandNumber(a) = OperandNumber(b)

\* a < b of the language, for two cast operands
LessThan(a, b) ==
    IF a.t \in {"str", "time"} /\ a.t = b.t THEN TextLess(a.s, b.s)
    ELSE IF a.t = "time" THEN FALSE
    ELSE IF b.t = "time" THEN OperandNumber(a).t = "num"
    ELSE /\ OperandNumber(a).t = "num" /\ OperandNumber(b).t = "num"
         /\ OperandNumber(a).n < OperandNumber(b).n

\* a <= b of the language
AtMost(a, b) ==
    IF a.t \in {"str", "time"} /\ a.t = b.t THEN ~TextLess(b.s, a.s)
    ELSE IF a.t = "time" THEN FALSE
    ELSE IF b.t = "time" THEN OperandNumber(a).t = "num"
    ELSE /\ OperandNumber(a).t = "num" /\ OperandNumber(b).t = "num"
         /\ OperandNumber(a).n <= OperandNumber(b).n

\* the comparison evalBrackets makes for an operator; an operator it does
\* not know leaves the result true
Compare(operator, a, b) ==
    CASE operator \in {<<"=">>, <<"=", "=">>} -> LooseEquals(a, b)
      [] operator = <<"<">> -> LessThan(a, b)
      [] operator = <<"<", "=">> -> AtMost(a, b)
      [] operator = <<">">> -> LessThan(b, a)
      [] operator = <<">", "=">> -> AtMost(b, a)
      [] operator = <<"!", "=">> -> ~LooseEquals(a, b)
      [] OTHER -> TRUE

\* the characters of an operand of an assertion
OperandChars == PathChars \cup {"$"}

OperatorChars == {"=", ">", "<", "!"}

\* a truth value or the error thrown instead
Truth(b) == [err |-> Ok, b |-> b]
ThrownTruth(e) == [err |-> e, b |-> FALSE]

\* the group has the form: operand, space, operator, space, operand
IsComparison(parts) ==
    /\ Len(parts) = 3
    /\ \A k \in 1..3 : Len(parts[k]) > 0
    /\ \A i \in DOMAIN parts[1] : parts[1][i] \in OperandChars
    /\ \A i \in DOMAIN parts[2] : parts[2][i] \in OperatorChars
    /\ \A i \in DOMAIN parts[3] : parts[3][i] \in OperandChars

\* an operand: replaceContext, then replaceResponse
Operand(text, ctx, response) ==
    IF ReplaceContext(text, ctx).err # Ok THEN ThrownVal(ReplaceContext(text, ctx).err)
    ELSE ReplaceResponse(ReplaceContext(text, ctx).s, response)

\* the comparison of two operands that were resolved
CompareOperands(operator, operand1, operand2) ==
    IF operand1.err # Ok THEN ThrownTruth(operand1.err)
    ELSE IF operand2.err # Ok THEN ThrownTruth(operand2.err)
    ELSE Truth(Compare(operator, CastAsComparable(operand1.v), CastAsComparable(operand2.v)))

\* one group of evalBrackets: a group that is no comparison counts as true
EvalTarget(parts, ctx, response) ==
    IF ~IsComparison(parts) THEN Truth(TRUE)
    ELSE CompareOperands(parts[2], Operand(parts[1], ctx, response), Operand(parts[3], ctx, response))

\* results.every(entry => entry), after every group was evaluated
AndResults(head, rest) ==
    IF head.err # Ok THEN head
    ELSE IF rest.err # Ok THEN rest
    ELSE Truth(head.b /\ rest.b)

RECURSIVE EvalGroups(_, _, _)
\* the groups {target} of a definition, from left to right
EvalGroups(definition, ctx, response) ==
    IF definition = <<>> THEN Truth(TRUE)
    ELSE IF definition[1] = "{" /\ IndexOf(definition, <<"}">>, 2) > 2
    THEN AndResults(
            EvalTarget(Split(SubSeq(definition, 2, IndexOf(definition, <<"}">>, 2) - 1), " "),
                       ctx, response),
            EvalGroups(SubSeq(definition, IndexOf(definition, <<"}">>, 2) + 1, Len(definition)),
                       ctx, response))
    ELSE EvalGroups(Tail(definition), ctx, response)

\* evalBrackets(definition, context, response); definition is a JSON value,
\* and one that is no string has no replace method
EvalBrackets(definition, ctx, response) ==
    IF definition = JNull THEN Truth(FALSE)
    ELSE IF definition.t # "str" THEN ThrownTruth(TypeError)
    ELSE EvalGroups(definition.s, ctx, response)

RECURSIVE JsonStringify(_)
RECURSIVE JoinStringified(_, _)
\* the elements or members of a value, each printed by JSON.stringify, with
\* commas between them
JoinStringified(value, keys) ==
    IF keys = <<>> THEN <<>>
    ELSE (IF value.t = "obj" THEN <<"\"">> \o KeyChars(Head(keys)) \o <<"\"", ":">> ELSE <<>>)
         \o JsonStringify(Member(value, Head(keys)))
         \o (IF Len(keys) > 1 THEN <<",">> ELSE <<>>)
         \o JoinStringified(value, Tail(keys))

RECURSIVE EscapeQuotes(_)
EscapeQuotes(cs) ==
    IF cs = <<>> THEN <<>>
    ELSE (IF cs[1] \in {"\"", "\\"} THEN <<"\\", cs[1]>> ELSE <<cs[1]>>) \o EscapeQuotes(Tail(cs))

\* JSON.stringify(value)
JsonStringify(value) ==
    CASE value.t = "str" -> <<"\"">> \o EscapeQuotes(value.s) \o <<"\"">>
      [] value.t = "num" -> NumChars(value.n)
      [] value.t \in {"nan", "null"} -> <<"n", "u", "l", "l">>
      [] value.t = "bool" -> JsToString(value)
      [] value.t = "arr" -> <<"[">> \o JoinStringified(value, ObjectKeys(value)) \o <<"]">>
      [] value.t = "obj" -> <<"{">> \o JoinStringified(value, ObjectKeys(value)) \o <<"}">>

\* stringifyObject(object), for an object that is no Buffer
StringifyObject(object) == IF object = JNull THEN <<>> ELSE JsonStringify(object)

\* /{.+}/.test(text)
HasBraces(cs) == \E i \in DOMAIN cs : \E j \in DOMAIN cs : j >= i + 2 /\ cs[i] = "{" /\ cs[j] = "}"

----------------------------------------------------------------------------
(* invoke, before the request is sent: lines 181-339 *)

\* Errors thrown by invoke
InvalidInvoke == "Invalid invoke."
SpecNotFound == "is not found in the specification."
MethodInvalid == "The method is invalid."
ParameterRequired == "Parameter is required."
ContentTypeUnsupported == "Response content type is not supported."
NoMediaType == "There is no corresponding definition for the response context type."
StatusDiffers == "Response status differs from expected value."
HeaderDiffers == "Response header differs from expected value."
TransportFailure == "request failed"

\* StandardSpecs.getSpec(key)
GetSpec(key) ==
    IF key = "oauth2.ClientCredentials"
    THEN [post |->
            [requestBody |-> "application/x-www-form-urlencoded",
             responses |->
                (<<"2", "0", "0">> :>
                    [content |->
                        (<<"a", "p", "p", "l", "i", "c", "a", "t", "i", "o", "n", "/", "j", "s", "o", "n">> :>
                            [schema |->
                                [type |-> "object",
                                 properties |->
                                    [access_token |-> [type |-> "string"],
                                     token_type |-> [type |-> "string"],
                                     expires_in |-> [type |-> "number", minimum |-> 0]]]])])]]
    ELSE JNull

\* method.toLowerCase(), for the methods of the model
ToLowerCase(m) ==
    CASE m = "GET" -> "get"
      [] m = "POST" -> "post"
      [] m = "Delete" -> "delete"
      [] OTHER -> m

Methods == {"get", "post", "patch", "put", "delete", "option", "head"}

\* Buffer.from(s).toString("base64"); the encoding is kept symbolic
Base64(cs) == <<"b", "6", "4", "(">> \o cs \o <<")">>

BasicPrefix == <<"B", "a", "s", "i", "c", " ">>
BearerPrefix == <<"B", "e", "a", "r", "e", "r", " ">>

\* /^{.+:.+}$/.test(credential)
IsBracedCredential(cs) ==
    /\ Len(cs) >= 5
    /\ cs[1] = "{"
    /\ cs[Len(cs)] = "}"
    /\ \E j \in 3..(Len(cs) - 2) : cs[j] = ":"

\* s.replace(/{.+}/, replacement): from the first "{" that has a "}" more
\* than one character after it, to the last "}"
ReplaceBraced(cs, replacement) ==
    LET starts == {i \in 1..Len(cs) : cs[i] = "{" /\ \E j \in (i + 2)..Len(cs) : cs[j] = "}"}
        i == CHOOSE x \in starts : \A y \in starts : x <= y
        j == CHOOSE x \in (i + 2)..Len(cs) : cs[x] = "}" /\ \A y \in (x + 1)..Len(cs) : cs[y] # "}"
    IN IF starts = {} THEN cs
       ELSE SubSeq(cs, 1, i - 1) \o replacement \o SubSeq(cs, j + 1, Len(cs))

\* The authorization header (lines 218-242): the result is the error thrown,
\* if any, and invoke.request.headers as the code leaves it.
AuthorizationHeaders(requestHeaders, ctx) ==
    IF requestHeaders = JNull THEN [err |-> Ok, headers |-> requestHeaders]
    ELSE IF "authorization" \notin DOMAIN requestHeaders /\ "Authorization" \notin DOMAIN requestHeaders
    THEN [err |-> Ok, headers |-> requestHeaders]
    ELSE LET lower == "authorization" \in DOMAIN requestHeaders
             key == IF lower THEN "authorization" ELSE "Authorization"
             authorization == requestHeaders[key]
         IN IF StartsWith(authorization, BasicPrefix)
            THEN LET credential == Trim(SubSeq(authorization, Len(BasicPrefix) + 1, Len(authorization)))
                 IN IF IsBracedCredential(credential)
                    THEN [err |-> Ok,
                          headers |->
                            [requestHeaders EXCEPT
                                ![key] = ReplaceBraced(authorization,
                                            Base64(SubSeq(credential, 2, Len(credential) - 1)))]]
                    ELSE [err |-> Ok, headers |-> requestHeaders]
            ELSE IF StartsWith(authorization, BearerPrefix)
            THEN LET credential == Trim(SubSeq(authorization, Len(BearerPrefix) + 1, Len(authorization)))
                     replaced == ReplaceBrackets(credential, ctx)
                 IN IF replaced.err # Ok THEN [err |-> replaced.err, headers |-> requestHeaders]
                    ELSE [err |-> Ok,
                          headers |-> ("authorization" :> (BearerPrefix \o replaced.s)) @@ requestHeaders]
            ELSE [err |-> Ok, headers |-> requestHeaders]

\* delete requestBody[key]
DeleteKey(body, key) == JObj([k \in (DOMAIN body.o) \ {key} |-> body.o[k]])

\* "{" + name + "}"
Braced(name) == <<"{">> \o KeyChars(name) \o <<"}">>

TakeParameterMut(parameter, st, ctx) ==
    [st EXCEPT !.path = ReplaceFirst(st.path, Braced(parameter.name),
                                     EncodeURIComponent(JsToString(st.body.o[parameter.name])))]

\* The value of an inline parameter taken from the request body (lines
\* 255-264 and 300-309): placeholders replaced, checked against the schema
\* with the cast, deleted from the body.  st holds the locals of invoke.
TakeParameter(parameter, st, ctx) ==
    LET value == st.body.o[parameter.name]
        replaced == IF value.t = "str" THEN ReplaceBrackets(value.s, ctx) ELSE Str(<<>>)
        value1 == IF value.t = "str" THEN JStr(replaced.s) ELSE value
        checked == IF Has(parameter, "schema") THEN ValidateJson(value1, parameter.schema, TRUE) ELSE Ok
        encoded == EncodeURIComponent(JsToString(value1))
    IN IF replaced.err # Ok THEN [st EXCEPT !.err = replaced.err]
       ELSE IF checked # Ok THEN [st EXCEPT !.err = checked]
       ELSE IF parameter.in = "path"
       THEN [st EXCEPT !.body = DeleteKey(st.body, parameter.name),
                        !.path = ReplaceFirst(st.path, Braced(parameter.name), encoded)]
       ELSE [st EXCEPT !.body = DeleteKey(st.body, parameter.name),
                        !.query = Append(st.query, KeyChars(parameter.name) \o <<"=">> \o encoded)]

\* parameter.required != null && parameter.required
IsRequiredMut(parameter) == FALSE

IsRequired(parameter) == Has(parameter, "required") /\ parameter.required

\* One inline parameter of the given place ("path" or "query").
InlineParameter(parameter, place, st, ctx) ==
    IF ~(Has(parameter, "in") /\ parameter.in = place /\ Has(parameter, "name")) THEN st
    ELSE IF st.body # JNull /\ parameter.name \in DOMAIN st.body.o
    THEN TakeParameter(parameter, st, ctx)
    ELSE IF IsRequired(parameter) THEN [st EXCEPT !.err = ParameterRequired]
    ELSE st

RECURSIVE TakeGroupKeys(_, _, _)
\* The keys of a parameter group (lines 280-286 and 325-331): every key of
\* the component's properties that the body holds is deleted from the body;
\* in a path it is spliced into the request path, in a query the string the
\* callback returns is dropped by forEach.
TakeGroupKeys(keys, place, st) ==
    IF keys = <<>> THEN st
    ELSE LET key == Head(keys)
             encoded == EncodeURIComponent(JsToString(st.body.o[key]))
             next ==
                IF key \notin DOMAIN st.body.o THEN st
                ELSE IF place = "path"
                THEN [st EXCEPT !.body = DeleteKey(st.body, key),
                                 !.path = ReplaceFirst(st.path, Braced(key), encoded)]
                ELSE [st EXCEPT !.body = DeleteKey(st.body, key)]
         IN TakeGroupKeys(Tail(keys), place, next)

\* One $ref parameter (lines 277-287 and 322-332).
GroupParameter(parameter, place, st) ==
    LET component == GetComponent(parameter.ref)
    IN IF st.body # JNull /\ component # JNull /\ Has(component, "properties")
       THEN LET checked == ValidateJson(st.body, component, FALSE)
            IN IF checked # Ok THEN [st EXCEPT !.err = checked]
               ELSE TakeGroupKeys(SelectSeq(KeyOrder, LAMBDA k : k \in DOMAIN component.properties),
                                  place, st)
       ELSE st

RECURSIVE Parameters(_, _, _, _)
\* parameters.forEach / parameters.map: in order, until one throws
Parameters(parameters, place, st, ctx) ==
    IF parameters = <<>> \/ st.err # Ok THEN st
    ELSE Parameters(Tail(parameters), place,
                    IF Has(Head(parameters), "ref")
                    THEN GroupParameter(Head(parameters), place, st)
                    ELSE InlineParameter(Head(parameters), place, st, ctx),
                    ctx)

RECURSIVE JoinAmp(_)
\* join("&")
JoinAmp(parts) ==
    IF parts = <<>> THEN <<>>
    ELSE IF Len(parts) = 1 THEN parts[1]
    ELSE parts[1] \o <<"&">> \o JoinAmp(Tail(parts))

HttpPrefix == <<"h", "t", "t", "p">>

\* lines 187-194
RequestPath(invoke, contextPath) ==
    IF StartsWith(invoke.path, HttpPrefix) THEN invoke.path
    ELSE IF Has(invoke, "contextPath") THEN invoke.contextPath \o invoke.path
    ELSE contextPath \o invoke.path

\* lines 196-204: the path item of the contract, else the standard one
PathItemOf(invoke) ==
    IF invoke.path \in DOMAIN spec.paths THEN spec.paths[invoke.path]
    ELSE IF Has(invoke, "spec") THEN GetSpec(invoke.spec)
    ELSE JNull

\* invoke up to Http.request (lines 181-339) works on its locals, kept here
\* in one record: the error thrown so far (or Ok), the method, the request
\* path, the path item and the operation of the contract, the request
\* headers and body (which are those of the test set: the code changes them
\* in place) and the query strings.

\* lines 182-194 and 214-247
Locals(invoke, contextPath) ==
    [err |-> IF ~Has(invoke, "path") \/ ~Has(invoke, "method") THEN InvalidInvoke ELSE Ok,
     method |-> "",
     path |-> IF Has(invoke, "path") THEN RequestPath(invoke, contextPath) ELSE <<>>,
     pathItem |-> JNull,
     operation |-> JNull,
     headers |-> IF Has(invoke, "request") /\ Has(invoke.request, "headers")
                 THEN invoke.request.headers ELSE JNull,
     body |-> IF Has(invoke, "request") /\ Has(invoke.request, "body")
              THEN invoke.request.body ELSE JNull,
     query |-> <<>>]

\* lines 196-212
FindOperation(invoke, st) ==
    IF st.err # Ok THEN st
    ELSE IF PathItemOf(invoke) = JNull THEN [st EXCEPT !.err = SpecNotFound]
    ELSE IF ToLowerCase(invoke.method) \notin Methods THEN [st EXCEPT !.err = MethodInvalid]
    ELSE [st EXCEPT !.pathItem = PathItemOf(invoke), !.method = ToLowerCase(invoke.method)]

\* lines 214-242
Authorize(st, ctx) ==
    IF st.err # Ok THEN st
    ELSE [st EXCEPT !.err = AuthorizationHeaders(st.headers, ctx).err,
                    !.headers = AuthorizationHeaders(st.headers, ctx).headers]

\* lines 249-290 for place "path", lines 294-335 for place "query"
TakeParameters(st, place, ctx) ==
    IF st.err # Ok THEN st
    ELSE IF place = "path"
    THEN IF Has(st.pathItem, "parameters") THEN Parameters(st.pathItem.parameters, place, st, ctx) ELSE st
    ELSE IF Has(st.operation, "parameters") THEN Parameters(st.operation.parameters, place, st, ctx) ELSE st

\* line 293-294: operation = path[method]; reading operation.parameters
\* throws when the path item has no such method
SelectOperation(st) ==
    IF st.err # Ok THEN st
    ELSE IF Has(st.pathItem, st.method) THEN [st EXCEPT !.operation = st.pathItem[st.method]]
    ELSE [st EXCEPT !.err = TypeError]

\* lines 335-339
AppendQuery(st) ==
    IF st.err # Ok \/ Len(JoinAmp(st.query)) = 0 THEN st
    ELSE [st EXCEPT !.path = st.path \o <<"?">> \o JoinAmp(st.query)]

\* invoke up to Http.request (lines 181-339)
BeforeRequest(invoke, contextPath, ctx) ==
    AppendQuery(
        TakeParameters(
            SelectOperation(
                TakeParameters(
                    Authorize(FindOperation(invoke, Locals(invoke, contextPath)), ctx),
                    "path", ctx)),
            "query", ctx))

----------------------------------------------------------------------------
(* invoke, after the response arrived: lines 357-419 *)

DefaultKey == <<"d", "e", "f", "a", "u", "l", "t">>
ContentTypeHeader == "content-type"
JsonPrefix == <<"a", "p", "p", "l", "i", "c", "a", "t", "i", "o", "n", "/", "j", "s", "o", "n">>

\* operation.responses[response.status.toString()], else responses.default
ResponseSpecOfMut(operation, response) ==
    IF DefaultKey \in DOMAIN operation.responses THEN operation.responses[DefaultKey]
    ELSE IF NatChars(response.status) \in DOMAIN operation.responses
    THEN operation.responses[NatChars(response.status)]
    ELSE JNull

ResponseSpecOf(operation, response) ==
    IF NatChars(response.status) \in DOMAIN operation.responses
    THEN operation.responses[NatChars(response.status)]
    ELSE IF DefaultKey \in DOMAIN operation.responses THEN operation.responses[DefaultKey]
    ELSE JNull

\* the schema of a media type, its $ref replaced by the component (or null)
MediaTypeSchema(mediaType) ==
    IF Has(mediaType.schema, "ref") THEN GetComponent(mediaType.schema.ref) ELSE mediaType.schema

\* The check of the response against the contract (lines 357-388)
ContractCheck(operation, response) ==
    IF ~Has(operation, "responses") \/ ~Has(response, "status") THEN Ok
    ELSE LET responseSpec == ResponseSpecOf(operation, response)
         IN IF responseSpec = JNull THEN Ok
            ELSE IF ~Has(responseSpec, "ref")
            THEN IF ContentTypeHeader \notin DOMAIN response.headers THEN Ok
                 ELSE IF ~Has(responseSpec, "content") THEN TypeError
                 ELSE LET responseContentType == response.headers[ContentTypeHeader]
                          mediaType == IF responseContentType \in DOMAIN responseSpec.content
                                       THEN responseSpec.content[responseContentType] ELSE JNull
                      IN IF mediaType # JNull /\ Has(mediaType, "schema")
                         THEN IF StartsWith(responseContentType, JsonPrefix)
                              THEN ValidateJson(response.body, MediaTypeSchema(mediaType), FALSE)
                              ELSE ContentTypeUnsupported
                         ELSE NoMediaType
            ELSE LET component == GetComponent(responseSpec.ref)
                 IN IF component # JNull THEN ValidateJson(response.body, component, FALSE) ELSE Ok

BodyDiffers == "Response body differs from expected value."

\* response.headers as the object the assertion is evaluated on
HeadersObject(headers) == JObj([k \in DOMAIN headers |-> JStr(headers[k])])

\* expected headers given as an object (lines 403-409)
HeadersDiffer(expectedHeaders, response) ==
    \E key \in DOMAIN expectedHeaders :
        \/ key \notin DOMAIN response.headers
        \/ expectedHeaders[key] # response.headers[key]

\* expected headers given as a string (lines 399-402)
HeadersAssertion(holds) ==
    IF holds.err # Ok THEN holds.err
    ELSE IF ~holds.b THEN BodyDiffers
    ELSE Ok

\* the expected body (lines 411-418), given the result of evalBrackets
BodyAssertion(expectedBody, holds, response) ==
    IF holds.err # Ok THEN holds.err
    ELSE IF ~holds.b THEN BodyDiffers
    ELSE IF ~HasBraces(expectedBody.s)
            /\ StringifyObject(response.body) # StringifyObject(expectedBody)
    THEN BodyDiffers
    ELSE Ok

\* the expected status (lines 392-396)
ExpectedStatus(testingResponse, response) ==
    IF Has(testingResponse, "status") /\ testingResponse.status # response.status
    THEN StatusDiffers ELSE Ok

\* the expected headers (lines 397-410); expected headers given as a string
\* are a JSON string value, given as an object a map of header names
ExpectedHeaders(testingResponse, ctx, response) ==
    IF ~Has(testingResponse, "headers") THEN Ok
    ELSE IF Has(testingResponse.headers, "t")
    THEN HeadersAssertion(EvalBrackets(testingResponse.headers, ctx, HeadersObject(response.headers)))
    ELSE IF HeadersDiffer(testingResponse.headers, response) THEN HeaderDiffers
    ELSE Ok

\* the expected body (lines 411-418)
ExpectedBody(testingResponse, ctx, response) ==
    IF ~Has(testingResponse, "body") \/ testingResponse.body = JNull THEN Ok
    ELSE BodyAssertion(testingResponse.body,
                       EvalBrackets(testingResponse.body, ctx, response.body),
                       response)

\* The expectations of the test case (lines 390-419): Ok, or the first error
Expectations(invoke, ctx, response) ==
    IF ~Has(invoke, "response") THEN Ok
    ELSE IF ExpectedStatus(invoke.response, response) # Ok
    THEN ExpectedStatus(invoke.response, response)
    ELSE IF ExpectedHeaders(invoke.response, ctx, response) # Ok
    THEN ExpectedHeaders(invoke.response, ctx, response)
    ELSE ExpectedBody(invoke.response, ctx, response)

\* invoke from the response to the PASS line (lines 350-419): Ok, or the
\* error thrown
AfterResponse(invoke, operation, ctx, response) ==
    IF ContractCheck(operation, response) # Ok THEN ContractCheck(operation, response)
    ELSE Expectations(invoke, ctx, response)

----------------------------------------------------------------------------
(* The inputs of the model: a contract, schemas and JSON values *)

StringSchema == [type |-> "string"]
NumberSchema == [type |-> "number"]
IntegerSchema == [type |-> "integer"]
NullSchema == [type |-> "null"]
\* a node with no type, no composition keyword and no $ref
UntypedSchema == [description |-> "untyped"]
ItemSchema == [type |-> "object", properties |-> [id |-> StringSchema, name |-> StringSchema]]
\* a $ref that does not have the shape #/components/schemas/<name>
ForeignRef == [prefix |-> "#/definitions/Item", name |-> ""]

\* components.schemas of the contract
\* components that refer to themselves or to each other: through a
\* property, through items, through a composition branch
CyclicSchemas ==
    [Node |-> [type |-> "object", properties |-> [id |-> StringSchema, name |-> [ref |-> Ref("Node")]]],
     List |-> [type |-> "array", items |-> [ref |-> Ref("List")]],
     Any |-> [anyOf |-> <<[ref |-> Ref("Any")], StringSchema>>, type |-> "object",
              properties |-> [id |-> [ref |-> Ref("Any")]]],
     Ping |-> [type |-> "object", properties |-> [id |-> [ref |-> Ref("Pong")]]],
     Pong |-> [type |-> "array", items |-> [ref |-> Ref("Ping")]],
     Both |-> [allOf |-> <<[ref |-> Ref("Both")]>>, type |-> "array", items |-> [ref |-> Ref("Both")]]]

ComponentSchemas ==
    [Item |-> ItemSchema,
     Id |-> StringSchema,
     Untyped |-> UntypedSchema,
     Alias |-> [ref |-> Ref("Id")]]
        @@ CyclicSchemas

EmptyObject == [k \in {} |-> JNull]

\* the largest number of branches of a composition keyword
MaxBranches == 2

LeafSchemas ==
    {StringSchema, NumberSchema, IntegerSchema, NullSchema, UntypedSchema,
     [type |-> "object"], [type |-> "string", ref |-> Ref("Item")],
     [ref |-> Ref("Item")], [ref |-> Ref("Id")], [ref |-> Ref("Alias")],
     [ref |-> Ref("Missing")], [ref |-> ForeignRef]}

PropertyMaps(S) ==
    {EmptyObject} \cup {("id" :> a) : a \in S} \cup {("id" :> a) @@ ("name" :> b) : a \in S, b \in S}
        \cup {("0" :> a) : a \in {StringSchema}}

ObjectSchemas == {[type |-> "object", properties |-> p] : p \in PropertyMaps(LeafSchemas)}

ArraySchemas ==
    {[type |-> "array"], [type |-> "array", maxItems |-> 0]}
        \cup {[type |-> "array", items |-> a] : a \in LeafSchemas}

BranchSchemas ==
    {StringSchema, NumberSchema, NullSchema, UntypedSchema, ItemSchema,
     [ref |-> Ref("Item")], [ref |-> Ref("Missing")],
     [oneOf |-> <<StringSchema, NullSchema>>]}

BranchLists == UNION {[1..n -> BranchSchemas] : n \in 0..MaxBranches}

CompositionSchemas ==
    UNION {{[oneOf |-> b], [anyOf |-> b], [allOf |-> b],
            [oneOf |-> b, type |-> "string"], [anyOf |-> b, type |-> "object"],
            [allOf |-> b, type |-> "string"], [allOf |-> b, ref |-> Ref("Item")],
            [oneOf |-> b, allOf |-> <<NullSchema>>]} : b \in BranchLists}

NestedSchemas ==
    {[type |-> "object", properties |-> ("id" :> c)] :
        c \in {[oneOf |-> <<StringSchema, NullSchema>>, type |-> "string"],
               [allOf |-> <<StringSchema, NullSchema>>, type |-> "string"],
               [anyOf |-> <<NumberSchema>>],
               ItemSchema}}

\* number and integer schemas with bounds; a bound is in tenths, as the
\* numbers are
BoundSchemas ==
    UNION {{[type |-> t, minimum |-> 10], [type |-> t, maximum |-> 20],
            [type |-> t, exclusiveMinimum |-> 10], [type |-> t, exclusiveMaximum |-> 20],
            [type |-> t, minimum |-> 10, maximum |-> 20],
            [type |-> t, exclusiveMinimum |-> 10, exclusiveMaximum |-> 20]} : t \in {"number", "integer"}}

SchemaSet ==
    LeafSchemas \cup ObjectSchemas \cup ArraySchemas \cup CompositionSchemas \cup NestedSchemas
        \cup BoundSchemas

ValueSet ==
    {JNull, JBool(TRUE), JNum(0), JNum(10), JNum(15), JNum(20), JNum(30),
     JStr(<<"a">>), JStr(<<"4", "2">>),
     JObj(EmptyObject), JObj("id" :> JStr(<<"a">>)), JObj("id" :> JNum(10)),
     JObj("id" :> JNull), JObj(("id" :> JStr(<<"a">>)) @@ ("name" :> JStr(<<"b">>))),
     JObj(("id" :> JStr(<<"a">>)) @@ ("name" :> JNum(10))),
     JObj("extra" :> JStr(<<"a">>)), JObj("id" :> JObj("id" :> JStr(<<"a">>))),
     JArr(<<>>), JArr(<<JStr(<<"a">>)>>), JArr(<<JNum(10)>>),
     JArr(<<JStr(<<"a">>), JNum(10)>>)}

ItemsPath == <<"/", "i", "t", "e", "m", "s", "/", "{", "i", "d", "}">>
StatusPath == <<"/", "s", "t", "a", "t", "u", "s">>
TokenPath == <<"/", "t", "o", "k", "e", "n">>
UnknownPath == <<"/", "u", "n", "k", "n", "o", "w", "n">>
Status200 == <<"2", "0", "0">>
JsonType == <<"a", "p", "p", "l", "i", "c", "a", "t", "i", "o", "n", "/", "j", "s", "o", "n">>
TextType == <<"t", "e", "x", "t", "/", "p", "l", "a", "i", "n">>

JsonContent(schema) == [content |-> (JsonType :> [schema |-> schema])]

\* a response schema with a composition keyword and a type of its own
StatusSchema == [anyOf |-> <<StringSchema, NullSchema>>, type |-> "string"]

RefsPath == <<"/", "r", "e", "f", "s">>
MediaPath == <<"/", "m", "e", "d", "i", "a">>
GroupPath == <<"/", "g", "r", "o", "u", "p">>

\* paths whose $ref names no component: the response itself, the schema of
\* its media type, a parameter
UnresolvedPaths ==
    (RefsPath :> [get |-> [responses |-> (Status200 :> [ref |-> Ref("Missing")])]])
    @@ (MediaPath :> [get |-> [responses |-> (Status200 :> JsonContent([ref |-> Ref("Missing")]))]])
    @@ (GroupPath :>
        [parameters |-> <<[ref |-> Ref("Missing")]>>,
         get |-> [responses |-> (Status200 :> JsonContent([ref |-> Ref("Item")]))]])

SearchPath == <<"/", "s", "e", "a", "r", "c", "h">>

\* a path whose operation has a required and an optional query parameter
SearchPaths ==
    SearchPath :>
        [get |-> [parameters |-> <<[name |-> "name", in |-> "query", required |-> TRUE,
                                    schema |-> StringSchema],
                                   [name |-> "id", in |-> "query", schema |-> StringSchema]>>,
                  responses |-> (Status200 :> JsonContent([ref |-> Ref("Item")]))]]

ListPath == <<"/", "l", "i", "s", "t">>

\* a path whose operation takes its query parameters from a component
ListPaths ==
    ListPath :>
        [get |-> [parameters |-> <<[ref |-> Ref("Item")]>>,
                  responses |-> (Status200 :> JsonContent([ref |-> Ref("Item")]))]]

\* paths of the contract
Paths ==
    (ItemsPath :>
        [parameters |-> <<[name |-> "id", in |-> "path", required |-> TRUE,
                           schema |-> [type |-> "string", maxLength |-> 2]]>>,
         get |-> [parameters |-> <<[name |-> "name", in |-> "query", schema |-> StringSchema]>>,
                  responses |-> (Status200 :> JsonContent([ref |-> Ref("Item")]))
                                @@ (DefaultKey :> JsonContent(NullSchema))]])
    @@ (StatusPath :>
        [get |-> [responses |-> (Status200 :> JsonContent(StatusSchema))
                                @@ (DefaultKey :> JsonContent([ref |-> Ref("Item")]))]])
    @@ UnresolvedPaths
    @@ SearchPaths
    @@ ListPaths

\* the contract
TheSpec == [paths |-> Paths, components |-> [schemas |-> ComponentSchemas]]

----------------------------------------------------------------------------
(* The test sets and the server of the model *)

BasePath == <<"h", "t", "t", "p", ":", "/", "/", "a", "p", "i">>

Text42 == JStr(<<"4", "2">>)
TextUp == JStr(<<"u", "p">>)
ItemBody == JObj(("id" :> Text42) @@ ("name" :> TextUp))

\* steps of a test case
GetItem ==
    [path |-> ItemsPath, method |-> "GET",
     request |-> [body |-> JObj("id" :> Text42)],
     response |-> [status |-> 200]]
GetItemNoBody == [path |-> ItemsPath, method |-> "get"]
GetItemLongId ==
    [path |-> ItemsPath, method |-> "GET", request |-> [body |-> JObj("id" :> JStr(<<"4", "2", "0">>))]]
GetStatus == [path |-> StatusPath, method |-> "GET"]
GetUnknown == [path |-> UnknownPath, method |-> "GET"]
FetchStatus == [path |-> StatusPath, method |-> "FETCH"]

InvokePool == {GetItem, GetItemNoBody, GetStatus, GetUnknown}

\* the largest number of test cases of a test set, and of steps of a case
MaxCases == 2
MaxSteps == 2

Sequences == UNION {[1..n -> InvokePool] : n \in 0..MaxSteps}

TestCases ==
    {[title |-> "case", sequence |-> q] : q \in Sequences}
        \cup {[title |-> "case"], [title |-> "case", contextPath |-> BasePath, sequence |-> <<GetItem>>]}

TestSets ==
    {JNull, [title |-> "no cases"]}
        \cup {[testCases |-> cs] : cs \in UNION {[1..n -> TestCases] : n \in 0..MaxCases}}

JsonHeaders == (ContentTypeHeader :> JsonType)

\* what the server may answer; "failed" is a call that Http.request rejects
Responses ==
    {[status |-> 200, headers |-> JsonHeaders, body |-> ItemBody],
     [status |-> 200, headers |-> JsonHeaders, body |-> TextUp],
     [status |-> 404, headers |-> JsonHeaders, body |-> JNull],
     [status |-> 404, headers |-> JsonHeaders, body |-> ItemBody],
     [failed |-> TRUE]}

----------------------------------------------------------------------------
(* The run: the constructor, validate, executeTestCases and invoke *)

SpecMissing == "Invalid specFilePath."
SpecInvalid == "Invalid specification."
TestSetInvalid == "Invalid test set."
Resolved == "resolved"

\* line 143: the test set validate refuses
NoTestCasesMut(ts) == ts = JNull

NoTestCases(ts) == ts = JNull \/ ~Has(ts, "testCases") \/ Len(ts.testCases) = 0

\* testCases[index], undefined (JNull) when there is none
TestCaseAt(index) ==
    IF testSet # JNull /\ Has(testSet, "testCases") /\ index < Len(testSet.testCases)
    THEN testSet.testCases[index + 1]
    ELSE JNull

\* sequence[index] of the current test case
CurrentInvoke == TestCaseAt(caseIndex).sequence[stepIndex + 1]

\* line 164: the context a test case starts with
FreshContextMut(ctx) == ctx

FreshContext(ctx) == <<>>

\* where invoke goes when it throws at step `index`: out, to the catch of
\* executeTestCases
OnThrowRetryMut(index, length) == [pc |-> "step", stepIndex |-> index]

OnThrowContinueMut(index, length) ==
    [pc |-> IF index + 1 < length THEN "step" ELSE "unwind",
     stepIndex |-> IF index + 1 < length THEN index + 1 ELSE index]

OnThrow(index, length) == [pc |-> "unwind", stepIndex |-> index]

\* new Validator(spec, testSet): lines 93-119, for arguments given as objects
Constructor ==
    /\ pc = "new"
    /\ IF spec = JNull
       THEN pc' = "end" /\ outcome' = SpecMissing
       ELSE pc' = "ready" /\ UNCHANGED outcome
    /\ UNCHANGED <<spec, testSet, server, caseIndex, stepIndex, context, thrown, pending,
                   requests, received, entered, log, valVars,
                   evalVars, loaded, frames>>

\* validate(): lines 139-147
Validate ==
    /\ pc = "ready"
    /\ IF spec = JNull THEN pc' = "end" /\ outcome' = SpecInvalid /\ UNCHANGED caseIndex
       ELSE IF NoTestCases(testSet) THEN pc' = "end" /\ outcome' = TestSetInvalid /\ UNCHANGED caseIndex
       ELSE pc' = "case" /\ caseIndex' = 0 /\ UNCHANGED outcome
    /\ UNCHANGED <<spec, testSet, server, stepIndex, context, thrown, pending,
                   requests, received, entered, log, valVars,
                   evalVars, loaded, frames>>

\* executeTestCases(testCases, index) up to the call of invoke: lines 153-164
ExecuteTestCases ==
    /\ pc = "case"
    /\ entered' = Append(entered, caseIndex)
    /\ LET testCase == TestCaseAt(caseIndex)
       IN IF testCase = JNull
          THEN /\ pc' = "end" /\ outcome' = TypeError
               /\ UNCHANGED <<log, context, stepIndex>>
          ELSE IF ~Has(testCase, "sequence") \/ Len(testCase.sequence) = 0
          THEN /\ pc' = "end" /\ outcome' = Resolved
               /\ UNCHANGED <<log, context, stepIndex>>
          ELSE /\ log' = Append(log, [kind |-> "start", case |-> caseIndex, step |-> 0])
               /\ context' = FreshContext(context)
               /\ stepIndex' = 0
               /\ pc' = "step"
               /\ UNCHANGED outcome
    /\ UNCHANGED <<spec, testSet, server, caseIndex, thrown, pending, requests, received, valVars,
                   evalVars, loaded, frames>>

\* invoke.request with the headers and the body as invoke left them
RequestAfter(request, before) ==
    [f \in DOMAIN request |->
        IF f = "headers" THEN before.headers
        ELSE IF f = "body" THEN before.body
        ELSE request[f]]

\* invoke(contextPath, sequence, index, context) up to await Http.request:
\* lines 181-348
Invoke ==
    /\ pc = "step"
    /\ LET testCase == TestCaseAt(caseIndex)
           invoke == CurrentInvoke
           contextPath == IF Has(testCase, "contextPath") THEN testCase.contextPath ELSE <<>>
           next == OnThrow(stepIndex, Len(testCase.sequence))
       IN \E before \in {BeforeRequest(invoke, contextPath, context)} :
          /\ testSet' =
                IF Has(invoke, "request")
                THEN [testSet EXCEPT !.testCases[caseIndex + 1].sequence[stepIndex + 1].request =
                                        RequestAfter(invoke.request, before)]
                ELSE testSet
          /\ IF before.err # Ok
             THEN /\ thrown' = before.err
                  /\ pc' = next.pc
                  /\ stepIndex' = next.stepIndex
                  /\ UNCHANGED <<requests, pending>>
             ELSE /\ requests' = Append(requests,
                                    [case |-> caseIndex, step |-> stepIndex, method |-> before.method,
                                     path |-> before.path, headers |-> before.headers,
                                     body |-> before.body])
                  /\ pending' = [operation |-> before.operation, path |-> before.path, invoke |-> invoke]
                  /\ pc' = "await"
                  /\ UNCHANGED <<thrown, stepIndex>>
    /\ UNCHANGED <<spec, server, outcome, caseIndex, context, received, entered, log, valVars,
                   evalVars, loaded, frames>>

\* invoke from the response of Http.request on: lines 348-425
HttpResponse ==
    /\ pc = "await"
    /\ \E response \in server :
        LET length == Len(TestCaseAt(caseIndex).sequence)
            next == OnThrow(stepIndex, length)
        IN IF Has(response, "failed")
           THEN /\ thrown' = TransportFailure
                /\ pc' = next.pc
                /\ stepIndex' = next.stepIndex
                /\ UNCHANGED <<received, context, log>>
           ELSE /\ received' = Append(received, [case |-> caseIndex, step |-> stepIndex,
                                                 response |-> response])
                /\ \E result \in {AfterResponse(pending.invoke, pending.operation, context, response)} :
                      IF result # Ok
                      THEN /\ thrown' = result
                           /\ pc' = next.pc
                           /\ stepIndex' = next.stepIndex
                           /\ UNCHANGED <<context, log>>
                      ELSE /\ log' = Append(log, [kind |-> "PASS", case |-> caseIndex, step |-> stepIndex])
                           /\ context' = Append(context, response.body)
                           /\ IF stepIndex + 1 < length
                              THEN stepIndex' = stepIndex + 1 /\ pc' = "step"
                              ELSE pc' = "unwind" /\ UNCHANGED stepIndex
                           /\ UNCHANGED thrown
    /\ pending' = JNull
    /\ UNCHANGED <<spec, testSet, server, outcome, caseIndex, requests, entered, valVars,
                   evalVars, loaded, frames>>

\* executeTestCases after await this.invoke: lines 165-171.  The catch
\* clause reads error.message, which throws when the error is undefined.
ExecuteTestCasesResume ==
    /\ pc = "unwind"
    /\ IF thrown = ThrownUndefined
       THEN /\ pc' = "end" /\ outcome' = TypeError
            /\ UNCHANGED <<log, caseIndex>>
       ELSE /\ log' = IF thrown # "none"
                      THEN Append(log, [kind |-> "NG", case |-> caseIndex, step |-> stepIndex])
                      ELSE log
            /\ IF caseIndex + 1 < Len(testSet.testCases)
               THEN pc' = "case" /\ caseIndex' = caseIndex + 1 /\ UNCHANGED outcome
               ELSE pc' = "end" /\ outcome' = Resolved /\ UNCHANGED caseIndex
    /\ thrown' = "none"
    /\ UNCHANGED <<spec, testSet, server, stepIndex, context, pending, requests, received,
                   entered, valVars,
                   evalVars, loaded, frames>>

Init ==
    /\ spec \in {JNull, TheSpec}
    /\ testSet \in TestSets
    /\ server = Responses
    /\ pc = "new" /\ outcome = "none"
    /\ caseIndex = 0 /\ stepIndex = 0 /\ context = <<>> /\ thrown = "none" /\ pending = JNull
    /\ requests = <<>> /\ received = <<>> /\ entered = <<>> /\ log = <<>>
    /\ loaded = testSet
    /\ vData = JNull /\ vSchema = JNull /\ vCast = FALSE /\ vResult = "none"
    /\ eDefinition = JNull /\ eResponse = JNull /\ eResult = NotCalled /\ eReplaced = NotCalled
    /\ frames = <<>>

Next ==
    \/ Constructor
    \/ Validate
    \/ ExecuteTestCases
    \/ Invoke
    \/ HttpResponse
    \/ ExecuteTestCasesResume

Spec == Init /\ [][Next]_vars

----------------------------------------------------------------------------
(* validateJson as an operation: one call on an input of the model *)

\* the executor at rest
Idle ==
    /\ testSet = JNull /\ loaded = JNull /\ server = {} /\ pc = "idle" /\ outcome = "none"
    /\ caseIndex = 0 /\ stepIndex = 0 /\ context = <<>> /\ thrown = "none" /\ pending = JNull
    /\ requests = <<>> /\ received = <<>> /\ entered = <<>> /\ log = <<>>

InitValidate ==
    /\ Idle
    /\ spec = TheSpec
    /\ vData \in ValueSet
    /\ vSchema \in SchemaSet
    /\ vCast \in BOOLEAN
    /\ vResult = "none"
    /\ eDefinition = JNull /\ eResponse = JNull /\ eResult = NotCalled /\ eReplaced = NotCalled
    /\ frames = <<>>

ValidateCall ==
    /\ vResult = "none"
    /\ vResult' = ValidateJson(vData, vSchema, vCast)
    /\ UNCHANGED <<spec, execVars, vData, vSchema, vCast, evalVars, frames>>

NextValidate == ValidateCall

SpecValidate == InitValidate /\ [][NextValidate]_vars

----------------------------------------------------------------------------
(* Claims about validateJson, checked under SpecValidate *)

Called == vResult # "none"

HasComposition(schema) == Has(schema, "oneOf") \/ Has(schema, "anyOf") \/ Has(schema, "allOf")

BranchValidates(data, branch) == ValidateJson(data, branch, FALSE) = Ok

\* C7: a node with a non-empty allOf validates a value iff every branch
\* validates it; a node with a non-empty oneOf or anyOf validates a value iff
\* at least one branch validates it, whether or not the node declares a type.
C7_CompositionSemantics ==
    Called =>
        /\ (Has(vSchema, "allOf") /\ Len(vSchema.allOf) > 0) =>
              (vResult = Ok <=> \A i \in DOMAIN vSchema.allOf : BranchValidates(vData, vSchema.allOf[i]))
        /\ (Has(vSchema, "oneOf") /\ Len(vSchema.oneOf) > 0) =>
              (vResult = Ok <=> \E i \in DOMAIN vSchema.oneOf : BranchValidates(vData, vSchema.oneOf[i]))
        /\ (Has(vSchema, "anyOf") /\ Len(vSchema.anyOf) > 0) =>
              (vResult = Ok <=> \E i \in DOMAIN vSchema.anyOf : BranchValidates(vData, vSchema.anyOf[i]))

\* the keys present in a value
KeysPresent(data) == {ObjectKeys(data)[i] : i \in 1..Len(ObjectKeys(data))}

\* some present key has no entry in properties, or its value fails the
\* property schema
SomeKeyFails(data, schema) ==
    \E k \in KeysPresent(data) :
        \/ ~Has(schema, "properties")
        \/ k \notin DOMAIN schema.properties
        \/ ValidateJson(Member(data, k), ResolveValueSchema(schema.properties[k]), FALSE) # Ok

IsObjectLike(data) == data.t = "obj" \/ data.t = "arr"

C9_UntypedAlwaysInvalid ==
    (Called /\ ~Has(vSchema, "type") /\ ~HasComposition(vSchema)) => vResult = SchemaInvalid

\* C9 amended: a node with no type, no composition keyword and no $ref that
\* resolves to a component declaring a type makes validateJson raise the
\* invalid-schema error, whatever the value.
C9_UntypedUnresolvedInvalid ==
    (/\ Called /\ ~Has(vSchema, "type") /\ ~HasComposition(vSchema)
     /\ \/ ~Has(vSchema, "ref")
        \/ GetComponent(vSchema.ref) = JNull
        \/ ~Has(GetComponent(vSchema.ref), "type"))
    => vResult = SchemaInvalid

\* C9 witness: the untyped node was applied to an object value
C9_Witness ==
    /\ Called /\ vResult = SchemaInvalid
    /\ vSchema = UntypedSchema
    /\ vData = JObj("id" :> JStr(<<"a">>))

----------------------------------------------------------------------------
(* Claims about the run, checked under Spec *)

\* the logger wrote a line of this kind for step s of test case c
Logged(kind, c, s) == \E j \in DOMAIN log : log[j] = [kind |-> kind, case |-> c, step |-> s]

\* test case c has no steps
NoSequence(c) == ~Has(TestCaseAt(c), "sequence") \/ Len(TestCaseAt(c).sequence) = 0

\* executeTestCases was called with index c
Entered(c) == \E j \in DOMAIN entered : entered[j] = c

\* the calls of Http.request made for test case c
CallsOf(c) == {i \in DOMAIN requests : requests[i].case = c}

\* C1: within one test case the steps are processed in index order: a step
\* is dispatched only after every earlier step of the case passed, after
\* the calls of the earlier steps, and never after a step of the case failed.
C1_StepsInOrder ==
    \A i \in DOMAIN requests :
        /\ \A k \in 0..(requests[i].step - 1) :
              /\ Logged("PASS", requests[i].case, k)
              /\ ~Logged("NG", requests[i].case, k)
        /\ \A j \in 1..(i - 1) :
              requests[j].case = requests[i].case => requests[j].step < requests[i].step

\* C1 witness: the first case of two steps failed at step 0 and its step 1
\* was never dispatched, and the next case ran its two steps
C1_Witness ==
    /\ pc = "end"
    /\ Logged("NG", 0, 0) /\ Len(TestCaseAt(0).sequence) = 2
    /\ \A i \in CallsOf(0) : requests[i].step = 0
    /\ Logged("PASS", 1, 0) /\ Logged("PASS", 1, 1)

\* C2 as stated: every error raised while processing a step is caught at the
\* test-case boundary, so that when the run is over every test case that
\* follows a case whose steps were processed has been executed.
C2_FailureIsolation ==
    pc = "end" =>
        \A c \in 0..(MaxCases - 1) :
            (Entered(c) /\ ~NoSequence(c) /\ c + 1 < Len(testSet.testCases)) => Entered(c + 1)

\* C3: while step i of a test case is processed the context holds exactly i
\* entries, entry j being the body received at step j of that case; the
\* context has one entry per step of the case that passed.
C3_ContextStore ==
    /\ pc \in {"step", "await"} =>
          /\ Len(context) = stepIndex
          /\ \A j \in 0..(stepIndex - 1) :
                \E k \in DOMAIN received :
                    /\ received[k].case = caseIndex /\ received[k].step = j
                    /\ received[k].response.body = context[j + 1]
    /\ pc \in {"step", "await", "unwind"} =>
          Len(context) = Cardinality({j \in 0..(MaxSteps - 1) : Logged("PASS", caseIndex, j)})

\* C3 witness: the second step of the second case is processed after the
\* first case passed a step
C3_Witness ==
    /\ pc = "step" /\ caseIndex = 1 /\ stepIndex = 1
    /\ Logged("PASS", 0, 0) /\ Len(context) = 1

\* errors invoke throws before it reaches Http.request
PreDispatchErrors == {InvalidInvoke, SpecNotFound, MethodInvalid, ParameterRequired}

\* C4: a step causes at most one call of Http.request, exactly one once it
\* is dispatched and none when it failed before; a test case causes no more
\* calls than it has steps.
C4_OneCallPerStep ==
    /\ \A i \in DOMAIN requests : \A j \in DOMAIN requests :
          (requests[i].case = requests[j].case /\ requests[i].step = requests[j].step) => i = j
    /\ \A i \in DOMAIN requests :
          Cardinality(CallsOf(requests[i].case)) <= Len(TestCaseAt(requests[i].case).sequence)
    /\ pc = "await" =>
          /\ requests # <<>>
          /\ requests[Len(requests)].case = caseIndex
          /\ requests[Len(requests)].step = stepIndex
    /\ (pc = "unwind" /\ thrown \in PreDispatchErrors) =>
          \A i \in CallsOf(caseIndex) : requests[i].step # stepIndex

\* C4 witness: the call of the second step failed and the case is left
\* with two calls made
C4_Witness ==
    /\ pc = "unwind" /\ thrown = TransportFailure /\ stepIndex = 1
    /\ Cardinality(CallsOf(caseIndex)) = 2

\* C5 as stated: a test case with an empty or missing sequence causes no
\* call and no PASS or NG line, and the run continues: when the run is over
\* the test case after it has been executed.
C5_EmptySequenceSkipped ==
    \A c \in 0..(MaxCases - 1) :
        (Entered(c) /\ NoSequence(c)) =>
            /\ CallsOf(c) = {}
            /\ \A s \in 0..(MaxSteps - 1) : ~Logged("PASS", c, s) /\ ~Logged("NG", c, s)
            /\ (pc = "end" /\ c + 1 < Len(testSet.testCases)) => Entered(c + 1)

\* C6: with no contract, no test set, or a test set whose testCases is
\* missing or empty, the run ends with an error and no test case is started
\* and no call made.
C6_PreconditionsFatal ==
    (\/ spec = JNull
     \/ testSet = JNull
     \/ ~Has(testSet, "testCases")
     \/ Len(testSet.testCases) = 0)
    => /\ entered = <<>> /\ requests = <<>> /\ log = <<>>
       /\ pc \in {"new", "ready", "end"}
       /\ pc = "end" => outcome \in {SpecMissing, SpecInvalid, TestSetInvalid}

\* C6 witness: validate refused a test set with an empty testCases
C6_Witness ==
    /\ pc = "end" /\ outcome = TestSetInvalid
    /\ spec # JNull /\ Has(testSet, "testCases") /\ testSet.testCases = <<>>

\* the operation of the contract for step s of test case c
ContractOperation(c, s) ==
    PathItemOf(TestCaseAt(c).sequence[s + 1])[ToLowerCase(TestCaseAt(c).sequence[s + 1].method)]

\* responses[str(status)] and, only when that is not declared, responses.default
DeclaredEntry(operation, status) ==
    IF NatChars(status) \in DOMAIN operation.responses THEN operation.responses[NatChars(status)]
    ELSE IF DefaultKey \in DOMAIN operation.responses THEN operation.responses[DefaultKey]
    ELSE JNull

\* the body of the response does not validate against the schema the entry
\* declares for the content type of the response
BodyViolates(entry, response) ==
    /\ entry # JNull /\ ~Has(entry, "ref") /\ Has(entry, "content")
    /\ ContentTypeHeader \in DOMAIN response.headers
    /\ response.headers[ContentTypeHeader] \in DOMAIN entry.content
    /\ Has(entry.content[response.headers[ContentTypeHeader]], "schema")
    /\ ValidateJson(response.body,
                    MediaTypeSchema(entry.content[response.headers[ContentTypeHeader]]),
                    FALSE) # Ok

\* the response received at position i of the history fails the contract
FailsContract(i) ==
    /\ Has(ContractOperation(received[i].case, received[i].step), "responses")
    /\ BodyViolates(DeclaredEntry(ContractOperation(received[i].case, received[i].step),
                                  received[i].response.status),
                    received[i].response)

\* C10: when the body of a response does not validate against the schema of
\* responses[str(status)], or of responses.default when that is not
\* declared, the step is not reported as PASS and its body is not appended
\* to the context.
C10_ResponseContract ==
    \A i \in DOMAIN received :
        FailsContract(i) =>
            /\ ~Logged("PASS", received[i].case, received[i].step)
            /\ (pc = "unwind" /\ caseIndex = received[i].case /\ stepIndex = received[i].step) =>
                  Len(context) = received[i].step

\* C10 witness: a response with an undeclared status was checked against
\* responses.default and failed
C10_Witness ==
    /\ pc = "unwind" /\ thrown = ValidationError
    /\ received # <<>>
    /\ received[Len(received)].response.status = 404
    /\ received[Len(received)].case = caseIndex
    /\ FailsContract(Len(received))

----------------------------------------------------------------------------
(* One test case of one or two steps, on a larger choice of steps and      *)
(* responses: the same run from other arguments of the constructor         *)

Text7 == JStr(<<"7">>)
TextAbc == JStr(<<"a", "b", "c">>)
OtherItemBody == JObj(("id" :> Text7) @@ ("name" :> TextUp))
TokenBody == JObj("access_token" :> TextAbc)

\* the expected body of Scenario A, and the same with spaces around "="
IdIs42 == JStr(<<"{", "i", "d", "=", "4", "2", "}">>)
IdIs42Spaced == JStr(<<"{", "i", "d", " ", "=", " ", "4", "2", "}">>)

ScenarioA == [GetItem EXCEPT !.response = [status |-> 200, body |-> IdIs42]]
ScenarioASpaced == [GetItem EXCEPT !.response = [status |-> 200, body |-> IdIs42Spaced]]

\* Scenario B: the step that fetches a token, and its use in the next step
TokenStep ==
    [path |-> TokenPath, method |-> "POST", spec |-> "oauth2.ClientCredentials",
     response |-> [status |-> 200]]
BearerTemplate ==
    BearerPrefix \o <<"{">> \o ContextPrefix \o <<"0", "]", ".">> \o KeyChars("access_token") \o <<"}">>
BearerLower == [path |-> StatusPath, method |-> "GET",
                request |-> [headers |-> ("authorization" :> BearerTemplate)]]
BearerUpper == [path |-> StatusPath, method |-> "GET",
                request |-> [headers |-> ("Authorization" :> BearerTemplate)]]

\* a path parameter that needs escaping, and one with a placeholder
GetItemSlash == [GetItem EXCEPT !.request = [body |-> JObj("id" :> JStr(<<"a", "/">>))]]
IdOfFirst == <<"{">> \o ContextPrefix \o <<"0", "]", ".">> \o KeyChars("id") \o <<"}">>
GetItemOfFirst == [GetItem EXCEPT !.request = [body |-> JObj("id" :> JStr(IdOfFirst))]]

\* steps on the paths whose $ref names no component
GetRefs == [path |-> RefsPath, method |-> "GET", response |-> [status |-> 200]]
GetMedia == [path |-> MediaPath, method |-> "GET", response |-> [status |-> 200]]
GetGroup == [path |-> GroupPath, method |-> "GET", request |-> [body |-> JObj("id" :> Text42)],
             response |-> [status |-> 200]]

\* expected bodies without a group: a string, and a structured value
StatusIsUp == [path |-> StatusPath, method |-> "GET", response |-> [status |-> 200, body |-> TextUp]]
ItemIs == [GetItem EXCEPT !.response = [status |-> 200, body |-> ItemBody]]

\* steps with and without the parameters their operation requires
SearchNoBody == [path |-> SearchPath, method |-> "GET"]
SearchById == [path |-> SearchPath, method |-> "GET", request |-> [body |-> JObj("id" :> Text42)]]
SearchByName == [path |-> SearchPath, method |-> "GET", request |-> [body |-> JObj("name" :> TextUp)]]

\* a step whose body holds the members of the parameter group
ListItems == [path |-> ListPath, method |-> "GET", request |-> [body |-> ItemBody]]

StepPool ==
    {ScenarioA, ScenarioASpaced, TokenStep, BearerLower, BearerUpper, GetItemSlash, GetItemOfFirst,
     GetRefs, GetMedia, GetGroup, StatusIsUp, ItemIs, GetItemNoBody, SearchNoBody, SearchById,
     SearchByName, ListItems}

\* the steps a two-step case starts with
FirstSteps == {TokenStep, ScenarioA}

StepSequences == {<<a>> : a \in StepPool} \cup {<<f, a>> : f \in FirstSteps, a \in StepPool}

StepTestSets == {[testCases |-> <<[title |-> "case", sequence |-> q]>>] : q \in StepSequences}

StepResponses ==
    {[status |-> 200, headers |-> JsonHeaders, body |-> ItemBody],
     [status |-> 200, headers |-> JsonHeaders, body |-> OtherItemBody],
     [status |-> 200, headers |-> JsonHeaders, body |-> TokenBody],
     [status |-> 200, headers |-> JsonHeaders, body |-> TextUp],
     [status |-> 200, headers |-> JsonHeaders, body |-> Text7],
     [failed |-> TRUE]}

InitStep ==
    /\ spec = TheSpec
    /\ testSet \in StepTestSets
    /\ server = StepResponses
    /\ pc = "new" /\ outcome = "none"
    /\ caseIndex = 0 /\ stepIndex = 0 /\ context = <<>> /\ thrown = "none" /\ pending = JNull
    /\ requests = <<>> /\ received = <<>> /\ entered = <<>> /\ log = <<>>
    /\ loaded = testSet
    /\ vData = JNull /\ vSchema = JNull /\ vCast = FALSE /\ vResult = "none"
    /\ eDefinition = JNull /\ eResponse = JNull /\ eResult = NotCalled /\ eReplaced = NotCalled
    /\ frames = <<>>

SpecStep == InitStep /\ [][Next]_vars

----------------------------------------------------------------------------
(* replaceBrackets and evalBrackets as operations: one call of each on an  *)
(* input of the model                                                      *)

Text10 == JStr(<<"1", "0">>)
TextNull == JStr(<<"n", "u", "l", "l">>)
TextBraced == JStr(<<"{", "x", "}">>)

\* the context argument
ContextSet ==
    {<<>>,
     <<ItemBody>>,
     <<JObj(("id" :> JStr(<<>>)) @@ ("name" :> TextBraced)), ItemBody>>,
     <<JObj(("id" :> JNum(100)) @@ ("name" :> JNull))>>,
     <<JObj("name" :> TextNull), JObj("id" :> Text10)>>}

\* the response argument of evalBrackets
EvalResponses ==
    {ItemBody,
     JObj(("id" :> Text10) @@ ("name" :> TextNull)),
     JObj(("id" :> JNum(100)) @@ ("name" :> JNull)),
     TextUp}

\* the texts of an operand: members of the response, literals, and
\* references to the context
OperandTexts ==
    {KeyChars("id"), KeyChars("name"), <<"1", "0">>, <<"1", "0", ".", "0">>, <<"1", ".", "2", ".", "3">>,
     <<"n", "u", "l", "l">>, <<"u", "p">>,
     ContextPrefix \o <<"0", "]", ".">> \o KeyChars("name")}

\* the assertion {a = b}
EqualityOf(a, b) == JStr(<<"{">> \o a \o <<" ", "=", " ">> \o b \o <<"}">>)

\* the template pre{context[n].f}post
ContextTemplate(pre, n, f, post) ==
    JStr(pre \o <<"{">> \o ContextPrefix \o NatChars(n) \o <<"]", ".">> \o KeyChars(f) \o <<"}">> \o post)

TemplateTexts == {<<>>, <<"u", "p">>}

\* the definition argument
Definitions ==
    {EqualityOf(a, b) : a \in OperandTexts, b \in OperandTexts}
        \cup {ContextTemplate(pre, n, f, post) :
                pre \in TemplateTexts, n \in {0, 1}, f \in {"id", "name"}, post \in TemplateTexts}
        \cup {JNull, TextUp, IdIs42}

InitEval ==
    /\ testSet = JNull /\ loaded = JNull /\ server = {} /\ pc = "idle" /\ outcome = "none"
    /\ caseIndex = 0 /\ stepIndex = 0 /\ thrown = "none" /\ pending = JNull
    /\ requests = <<>> /\ received = <<>> /\ entered = <<>> /\ log = <<>>
    /\ context \in ContextSet
    /\ spec = TheSpec
    /\ vData = JNull /\ vSchema = JNull /\ vCast = FALSE /\ vResult = "none"
    /\ eDefinition \in Definitions
    /\ eResponse \in EvalResponses
    /\ eResult = NotCalled /\ eReplaced = NotCalled
    /\ frames = <<>>

\* evalBrackets(definition, context, response)
EvalCall ==
    /\ eResult = NotCalled
    /\ eResult' = EvalBrackets(eDefinition, context, eResponse)
    /\ UNCHANGED <<spec, execVars, valVars, eDefinition, eResponse, eReplaced, frames>>

\* replaceBrackets(definition, context): null for a null definition
ReplaceCall ==
    /\ eReplaced = NotCalled
    /\ eReplaced' = IF eDefinition = JNull THEN [err |-> Ok, s |-> JNull]
                    ELSE ReplaceBrackets(eDefinition.s, context)
    /\ UNCHANGED <<spec, execVars, valVars, eDefinition, eResponse, eResult, frames>>

NextEval == EvalCall \/ ReplaceCall

SpecEval == InitEval /\ [][NextEval]_vars

----------------------------------------------------------------------------
(* Claims about one step, checked under SpecStep *)

\* the step of the test set as loaded that received[i] answers
StepOf(i) == loaded.testCases[received[i].case + 1].sequence[received[i].step + 1]

\* received[i] satisfies the contract and the expected status of its step
MeetsContract(i) ==
    /\ ContractCheck(ContractOperation(received[i].case, received[i].step), received[i].response) = Ok
    /\ Has(StepOf(i), "response") /\ Has(StepOf(i).response, "status")
    /\ StepOf(i).response.status = received[i].response.status

\* the id of the body of received[i] equals 42 under the comparable projection
IdEquals42(i) ==
    /\ received[i].response.body.t = "obj"
    /\ "id" \in DOMAIN received[i].response.body.o
    /\ LooseEquals(CastAsComparable(received[i].response.body.o["id"]), JNum(420))

\* C11 as stated: a step whose expected body is "{id=42}" and whose response
\* satisfies the contract and the expected status passes iff the id of the
\* response body equals 42 under the comparable projection.
C11_ScenarioA ==
    \A i \in DOMAIN received :
        (/\ Has(StepOf(i), "response") /\ Has(StepOf(i).response, "body")
         /\ StepOf(i).response.body = IdIs42
         /\ MeetsContract(i))
        => (Logged("PASS", received[i].case, received[i].step) <=> IdEquals42(i))

\* the step of the test set as loaded that requests[i] was sent for
StepSent(i) == loaded.testCases[requests[i].case + 1].sequence[requests[i].step + 1]

\* the inline path parameters of the path item of a step whose name is a key
\* of the request body of the step
PathParametersOf(step) ==
    IF PathItemOf(step) = JNull \/ ~Has(PathItemOf(step), "parameters") THEN {}
    ELSE IF ~(Has(step, "request") /\ Has(step.request, "body") /\ step.request.body.t = "obj") THEN {}
    ELSE {PathItemOf(step).parameters[k] : k \in
            {j \in DOMAIN PathItemOf(step).parameters :
                /\ ~Has(PathItemOf(step).parameters[j], "ref")
                /\ PathItemOf(step).parameters[j].in = "path"
                /\ PathItemOf(step).parameters[j].name \in DOMAIN step.request.body.o}}

\* the value of a key of the request body, placeholders substituted, as text
SubstitutedValue(step, name) ==
    IF step.request.body.o[name].t = "str"
    THEN ReplaceBrackets(step.request.body.o[name].s, context).s
    ELSE JsToString(step.request.body.o[name])

\* C12: for each inline path parameter of the path item whose name is a key
\* of the request body, the dispatched URL has {name} replaced by the
\* URL-encoded substituted value and the dispatched body no longer holds the
\* key.
C12_PathParameters ==
    \A i \in DOMAIN requests :
        \A parameter \in PathParametersOf(StepSent(i)) :
            /\ StartsWith(requests[i].path,
                          ReplaceFirst(StepSent(i).path, Braced(parameter.name),
                                       EncodeURIComponent(SubstitutedValue(StepSent(i), parameter.name))))
            /\ IndexOf(requests[i].path, Braced(parameter.name), 1) = 0
            /\ parameter.name \notin DOMAIN requests[i].body.o

\* Scenario A was dispatched as /items/42 with an empty body, and a
\* placeholder of a later step was dispatched substituted and escaped
C12_Witness ==
    /\ \E i \in DOMAIN requests :
        /\ StepSent(i) = ScenarioA
        /\ requests[i].path = <<"/", "i", "t", "e", "m", "s", "/", "4", "2">>
        /\ DOMAIN requests[i].body.o = {}
    /\ \E i \in DOMAIN requests :
        /\ StepSent(i) = GetItemOfFirst
        /\ requests[i].path = <<"/", "i", "t", "e", "m", "s", "/", "4", "2">>

BearerAbc == BearerPrefix \o <<"a", "b", "c">>

\* requests[i] is the second step of a case whose first step returned
\* {access_token: "abc"}, and its header was written as the Bearer template
\* under one of the two capitalisations
BearerAfterToken(i) ==
    /\ requests[i].step = 1
    /\ \E j \in DOMAIN received :
        /\ received[j].case = requests[i].case /\ received[j].step = 0
        /\ received[j].response.body = TokenBody
    /\ Has(StepSent(i), "request") /\ Has(StepSent(i).request, "headers")
    /\ \E key \in {"authorization", "Authorization"} :
        /\ key \in DOMAIN StepSent(i).request.headers
        /\ StepSent(i).request.headers[key] = BearerTemplate

\* C13 as stated: Scenario B dispatches the header as "Bearer abc" whichever
\* capitalisation of the key the author used, and dispatches no
\* authorization header that still holds the placeholder.
C13_ScenarioB ==
    \A i \in DOMAIN requests :
        BearerAfterToken(i) =>
            /\ \E key \in {"authorization", "Authorization"} :
                /\ key \in DOMAIN requests[i].headers
                /\ requests[i].headers[key] = BearerAbc
            /\ \A key \in {"authorization", "Authorization"} :
                key \in DOMAIN requests[i].headers
                    => IndexOf(requests[i].headers[key], <<"{">>, 1) = 0

----------------------------------------------------------------------------
(* Claims about replaceBrackets and evalBrackets, checked under SpecEval *)

ContextName == ContextPrefix \o <<"0", "]", ".">> \o KeyChars("name")

\* an operand that names a value of the response or of the context
IsTaken(text) ==
    \/ text \in {KeyChars("id"), KeyChars("name")}
        /\ eResponse.t = "obj" /\ KeyOf(text) \in DOMAIN eResponse.o
    \/ text = ContextName
        /\ Len(context) > 0 /\ context[1].t = "obj" /\ "name" \in DOMAIN context[1].o

\* the value an operand stands for: the member of the response, the member
\* of the context entry, or the text itself
ActualValue(text) ==
    IF ~IsTaken(text) THEN JStr(text)
    ELSE IF text = ContextName THEN context[1].o["name"]
    ELSE eResponse.o[KeyOf(text)]

IsNumeral(value) == IsDigitsAndDots(JsToString(value))

\* evalBrackets returned for the assertion {a = b}
Compared(a, b) == eDefinition = EqualityOf(a, b) /\ eResult.err = Ok

\* operands made only of digits and "." are equal iff their numbers are
NumeralsByValue ==
    \A a \in OperandTexts, b \in OperandTexts :
        (Compared(a, b) /\ IsNumeral(ActualValue(a)) /\ IsNumeral(ActualValue(b)))
            => (eResult.b <=> (JsNumber(ActualValue(a)).t = "num"
                               /\ JsNumber(ActualValue(a)) = JsNumber(ActualValue(b))))

\* C14 as stated: numerals are compared by value, and the literal null is
\* equal to an operand only when the operand is an actual null.
C14_NullOnlyActualNull ==
    /\ NumeralsByValue
    /\ \A a \in OperandTexts :
        (Compared(a, <<"n", "u", "l", "l">>) /\ IsTaken(a))
            => (eResult.b <=> ActualValue(a) = JNull)

\* C14: numerals are compared by value ("10" = "10.0" holds), and the
\* literal null is equal to an operand exactly when the operand is an
\* actual null or the string "null".
C14_ComparableEquality ==
    /\ NumeralsByValue
    /\ \A a \in OperandTexts :
        Compared(a, <<"n", "u", "l", "l">>)
            => (eResult.b <=> ActualValue(a) \in {JNull, TextNull})

\* {id = 10.0} holds on a response whose id is the string "10"
C14_Witness ==
    /\ eDefinition = EqualityOf(KeyChars("id"), <<"1", "0", ".", "0">>)
    /\ eResponse.t = "obj" /\ eResponse.o["id"] = Text10
    /\ eResult = Truth(TRUE)

\* the string value of field f of entry n of the context, if there is one
HasText(n, f) ==
    /\ n < Len(context) /\ context[n + 1].t = "obj"
    /\ f \in DOMAIN context[n + 1].o /\ context[n + 1].o[f].t = "str"

\* C15: for a context whose entry N has field f with string value v,
\* replaceBrackets without a response turns {context[N].f} into v and leaves
\* the text outside the group as it is.
C15_RoundTrip ==
    \A pre \in TemplateTexts, post \in TemplateTexts, n \in {0, 1}, f \in {"id", "name"} :
        (/\ eDefinition = ContextTemplate(pre, n, f, post)
         /\ eReplaced # NotCalled
         /\ HasText(n, f))
        => eReplaced = Str(pre \o context[n + 1].o[f].s \o post)

\* up{context[1].id}up became up42up
C15_Witness ==
    /\ eDefinition = ContextTemplate(<<"u", "p">>, 1, "id", <<"u", "p">>)
    /\ Len(context) = 2 /\ context[2] = ItemBody
    /\ eReplaced = Str(<<"u", "p", "4", "2", "u", "p">>)

----------------------------------------------------------------------------
(* More claims about one step, checked under SpecStep *)

\* the entry of the contract that answers received[i]
ResponseSpecAt(i) ==
    ResponseSpecOf(ContractOperation(received[i].case, received[i].step), received[i].response)

\* received[i] is answered by an entry that is a $ref, or whose media type
\* has a schema that is a $ref, which names no component
UnresolvedResponse(i) ==
    /\ Has(ContractOperation(received[i].case, received[i].step), "responses")
    /\ ResponseSpecAt(i) # JNull
    /\ \/ Has(ResponseSpecAt(i), "ref") /\ GetComponent(ResponseSpecAt(i).ref) = JNull
       \/ /\ Has(ResponseSpecAt(i), "content")
          /\ ContentTypeHeader \in DOMAIN received[i].response.headers
          /\ received[i].response.headers[ContentTypeHeader] \in DOMAIN ResponseSpecAt(i).content
          /\ \E schema \in {ResponseSpecAt(i).content[received[i].response.headers[ContentTypeHeader]].schema} :
                Has(schema, "ref") /\ GetComponent(schema.ref) = JNull

\* the path item of a step has a parameter that is a $ref naming no component
UnresolvedParameter(step) ==
    /\ PathItemOf(step) # JNull /\ Has(PathItemOf(step), "parameters")
    /\ \E k \in DOMAIN PathItemOf(step).parameters :
        /\ Has(PathItemOf(step).parameters[k], "ref")
        /\ GetComponent(PathItemOf(step).parameters[k].ref) = JNull

\* C16 as stated: when a $ref of the response, of the schema of its media
\* type or of a parameter names no component, the step fails with the
\* invalid-schema error; the check is never skipped.
C16_UnresolvedRefFails ==
    /\ \A i \in DOMAIN received :
        UnresolvedResponse(i) =>
            /\ ~Logged("PASS", received[i].case, received[i].step)
            /\ (i = Len(received) /\ pc = "unwind") => thrown = SchemaInvalid
    /\ \A i \in DOMAIN requests : ~UnresolvedParameter(StepSent(i))

\* C17 as stated: the contract and the test set are read-only: after a run
\* every step's request headers and body are what they were before it.
C17_ReadOnly ==
    pc = "end" => (spec = TheSpec /\ testSet = loaded)

----------------------------------------------------------------------------
(* More claims about validateJson, checked under SpecValidate *)

\* a number passes the bounds a schema declares: minimum and maximum
\* inclusive, exclusiveMinimum and exclusiveMaximum strict
WithinBounds(v, schema) ==
    /\ Has(schema, "minimum") => schema.minimum <= v
    /\ Has(schema, "maximum") => v <= schema.maximum
    /\ Has(schema, "exclusiveMinimum") => schema.exclusiveMinimum < v
    /\ Has(schema, "exclusiveMaximum") => v < schema.exclusiveMaximum

\* the numbers the type of a schema admits: every number for "number", the
\* whole ones for "integer"
OfNumericType(data, schema) ==
    /\ data.t = "num"
    /\ schema.type = "integer" => data.n % 10 = 0

\* C18 as stated: a numeric value passes a number or integer schema iff it
\* is within every declared bound, minimum and maximum inclusive,
\* exclusiveMinimum and exclusiveMaximum strict.
C18_NumericBounds ==
    (Called /\ vSchema \in BoundSchemas /\ OfNumericType(vData, vSchema))
        => (vResult = Ok <=> WithinBounds(vData.n, vSchema))

\* the expected body of the step of received[i] holds no {...} group
PlainExpectedBody(i) ==
    /\ Has(StepOf(i), "response") /\ Has(StepOf(i).response, "body")
    /\ ~Has(StepOf(i).response, "headers")
    /\ StepOf(i).response.body # JNull
    /\ StepOf(i).response.body.t = "str" => ~HasBraces(StepOf(i).response.body.s)

\* C19 as stated: an expected body without a {...} group, a string or a
\* structured value, passes iff its JSON serialisation equals that of the
\* actual body.
C19_PlainBodyEquality ==
    \A i \in DOMAIN received :
        (PlainExpectedBody(i) /\ MeetsContract(i))
            => (Logged("PASS", received[i].case, received[i].step)
                    <=> StringifyObject(received[i].response.body)
                            = StringifyObject(StepOf(i).response.body))

\* the inline parameters invoke looks at: those of the path item that are
\* in the path, those of the operation that are in the query
InlineParametersOf(step) ==
    LET pathItem == PathItemOf(step)
        method == ToLowerCase(step.method)
        ofPath == IF pathItem # JNull /\ Has(pathItem, "parameters")
                  THEN {pathItem.parameters[k] : k \in DOMAIN pathItem.parameters} ELSE {}
        ofOperation == IF pathItem # JNull /\ Has(pathItem, method) /\ Has(pathItem[method], "parameters")
                       THEN {pathItem[method].parameters[k] : k \in DOMAIN pathItem[method].parameters}
                       ELSE {}
    IN {q \in ofPath : ~Has(q, "ref") /\ q.in = "path"}
        \cup {q \in ofOperation : ~Has(q, "ref") /\ q.in = "query"}

\* the request body of a step is absent or has no key of that name
Missing(step, name) ==
    ~(Has(step, "request") /\ Has(step.request, "body") /\ name \in DOMAIN step.request.body.o)

MissingRequired(step) ==
    \E q \in InlineParametersOf(step) : Has(q, "required") /\ q.required /\ Missing(step, q.name)

\* nothing else of the step can fail before the request: it has no headers,
\* and every parameter the body holds passes its schema
OtherwiseSound(step) ==
    /\ ~(Has(step, "request") /\ Has(step.request, "headers"))
    /\ \A q \in InlineParametersOf(step) :
        (~Missing(step, q.name) /\ Has(q, "schema"))
            => ValidateJson(step.request.body.o[q.name], q.schema, TRUE) = Ok

\* the step invoke is at, as the test set was loaded
StepAt == loaded.testCases[caseIndex + 1].sequence[stepIndex + 1]

\* C20: a step that lacks a required inline parameter is never dispatched
\* and fails with the missing-parameter error; that error is raised for no
\* other step, and a parameter that is not required and is missing leaves
\* no trace in the dispatched URL.
C20_RequiredParameters ==
    /\ \A i \in DOMAIN requests : ~MissingRequired(StepSent(i))
    /\ (pc = "unwind" /\ thrown # "none")
        => /\ (MissingRequired(StepAt) /\ OtherwiseSound(StepAt)) => thrown = ParameterRequired
           /\ thrown = ParameterRequired => MissingRequired(StepAt)
    /\ \A i \in DOMAIN requests :
        \A q \in InlineParametersOf(StepSent(i)) :
            (q.in = "query" /\ Missing(StepSent(i), q.name))
                => IndexOf(requests[i].path, KeyChars(q.name) \o <<"=">>, 1) = 0

\* a step whose body lacks the required query parameter failed undispatched
C20_Witness ==
    /\ pc = "unwind" /\ thrown = ParameterRequired
    /\ StepAt = SearchById
    /\ requests = <<>>

\* the keys of the request body of a step as the test set was loaded
BodyKeysOf(step) ==
    IF Has(step, "request") /\ Has(step.request, "body") /\ step.request.body.t = "obj"
    THEN DOMAIN step.request.body.o ELSE {}

\* the value of a key of the loaded body is part of the URL of requests[i]:
\* spliced into the path in place of {key}, or as key=value in the query
InUrl(i, key) ==
    \E encoded \in {EncodeURIComponent(SubstitutedValue(StepSent(i), key))} :
        \/ IndexOf(requests[i].path, KeyChars(key) \o <<"=">> \o encoded, 1) > 0
        \/ /\ IndexOf(StepSent(i).path, Braced(key), 1) > 0
           /\ IndexOf(requests[i].path, Braced(key), 1) = 0
           /\ IndexOf(requests[i].path, encoded, 1) > 0

\* C21 as stated: parameter extraction drops no value: each key of the
\* original request body is in the dispatched body or in the dispatched URL.
C21_NoValueDropped ==
    \A i \in DOMAIN requests :
        \A key \in BodyKeysOf(StepSent(i)) :
            \/ requests[i].body.t = "obj" /\ key \in DOMAIN requests[i].body.o
            \/ InUrl(i, key)

----------------------------------------------------------------------------
(* validateJson call by call: the recursive calls of one validation, on    *)
(* components that refer to themselves                                     *)

Frame(data, schema) == [data |-> data, schema |-> schema]

\* the elements of a sequence up to the first one that stops the loop
UpToFirst(calls, stops) ==
    LET evaluated == stops \o <<>>
    IN IF \A i \in DOMAIN calls : ~evaluated[i] THEN calls
       ELSE SubSeq(calls, 1,
                   CHOOSE i \in DOMAIN calls : evaluated[i] /\ \A j \in 1..(i - 1) : ~evaluated[j])

\* the calls of schema.oneOf.some / anyOf.some (some = TRUE: up to the first
\* branch that validates) or allOf.every (up to the first that does not)
BranchCalls(data, branches, some) ==
    UpToFirst([i \in DOMAIN branches |-> Frame(data, branches[i])],
              [i \in DOMAIN branches |-> (ValidateJson(data, branches[i], FALSE) = Ok) = some])

\* lines 529-580
CompositionCalls(data, schema) ==
    IF Has(schema, "oneOf") THEN BranchCalls(data, schema.oneOf, TRUE)
    ELSE IF Has(schema, "anyOf") THEN BranchCalls(data, schema.anyOf, TRUE)
    ELSE IF Has(schema, "allOf") THEN BranchCalls(data, schema.allOf, FALSE)
    ELSE <<>>

\* data.forEach(value => validateJson(value, valueSchema)): up to the first
\* element that throws
ItemCalls(data, schema) ==
    IF data.t # "arr" THEN <<>>
    ELSE IF Has(schema, "maxItems") /\ Len(data.a) > schema.maxItems THEN <<>>
    ELSE IF Has(schema, "minItems") /\ Len(data.a) < schema.minItems THEN <<>>
    ELSE IF ~Has(schema, "items") THEN <<>>
    ELSE UpToFirst(
            [i \in 1..Len(data.a) |-> Frame(data.a[i], ResolveValueSchema(schema.items))],
            [i \in 1..Len(data.a) |->
                ValidateJson(data.a[i], ResolveValueSchema(schema.items), FALSE) # Ok])

\* Object.keys(data).forEach(key => validateJson(data[key], valueSchema, key)):
\* up to the first key that throws; a key without a property schema throws
\* before its call
PropertyCalls(data, schema) ==
    IF data.t = "null" \/ TypeOf(data) # "object" \/ ~Has(schema, "properties") THEN <<>>
    ELSE \* keys up to the first that throws, then those with a property schema
         LET keys == SelectSeq(
                        UpToFirst(ObjectKeys(data),
                                  [i \in 1..Len(ObjectKeys(data)) |->
                                      PropertyCheck(data, schema, ObjectKeys(data)[i]) # Ok]),
                        LAMBDA k : k \in DOMAIN schema.properties)
         IN [i \in 1..Len(keys) |->
                Frame(Member(data, keys[i]), ResolveValueSchema(schema.properties[keys[i]]))]

\* lines 610-651: the calls of the branch of schema.type
TypeCalls(data, schema) ==
    CASE SchemaType(schema) = "array" -> ItemCalls(data, schema)
      [] SchemaType(schema) = "object" -> PropertyCalls(data, schema)
      [] OTHER -> <<>>

CallsOfBodyMut(data, schema) == <<Frame(data, schema)>>

\* the calls of validateJson that the body of validateJson(data, schema)
\* makes, in order
CallsOfBody(data, schema) ==
    IF schema = JNull THEN <<>>
    ELSE CompositionCalls(data, schema)
            \o (IF Composition(data, schema) # Ok THEN <<>>
                ELSE IF Has(schema, "ref") /\ GetComponent(schema.ref) = JNull THEN <<>>
                ELSE IF SchemaTypeMissing(IF Has(schema, "ref") THEN GetComponent(schema.ref) ELSE schema)
                THEN <<>>
                ELSE TypeCalls(data, IF Has(schema, "ref") THEN GetComponent(schema.ref) ELSE schema))

\* values nested up to three deep
NestedValues ==
    {JNull, JStr(<<"a">>), JArr(<<>>), JObj(EmptyObject),
     JObj(("id" :> JStr(<<"a">>)) @@ ("name" :> JObj("name" :> JObj("id" :> JStr(<<"a">>))))),
     JObj("name" :> JObj("name" :> JObj("name" :> JNull))),
     JArr(<<JArr(<<JArr(<<>>)>>), JArr(<<>>)>>),
     JArr(<<JArr(<<JStr(<<"a">>)>>), JArr(<<>>)>>),
     JObj("id" :> JArr(<<JObj("id" :> JArr(<<>>))>>)),
     JObj("id" :> JObj("id" :> JStr(<<"a">>))),
     JArr(<<JObj("id" :> JArr(<<>>))>>)}

\* schemas that reach the cyclic components
RecursiveSchemas ==
    {[ref |-> Ref(n)] : n \in DOMAIN CyclicSchemas}
        \cup {CyclicSchemas[n] : n \in DOMAIN CyclicSchemas}
        \cup {[oneOf |-> <<[ref |-> Ref("Node")], [ref |-> Ref("List")]>>, type |-> "object",
               properties |-> [id |-> [ref |-> Ref("Pong")], name |-> [ref |-> Ref("Node")]]],
              [type |-> "array", items |-> [ref |-> Ref("Ping")]]}

InitCalls ==
    /\ Idle
    /\ spec = TheSpec
    /\ vData \in NestedValues
    /\ vSchema \in RecursiveSchemas
    /\ vCast \in BOOLEAN
    /\ vResult = "none"
    /\ eDefinition = JNull /\ eResponse = JNull /\ eResult = NotCalled /\ eReplaced = NotCalled
    /\ frames = <<Frame(vData, vSchema)>>

\* the call that is next is entered; the calls its body makes come before
\* those that were waiting.  The first call returns or throws when none is
\* left.
EnterCall ==
    /\ frames # <<>>
    /\ frames' = CallsOfBody(Head(frames).data, Head(frames).schema) \o Tail(frames)
    /\ vResult' = IF frames' = <<>> THEN ValidateJson(vData, vSchema, vCast) ELSE vResult
    /\ UNCHANGED <<spec, execVars, vData, vSchema, vCast, evalVars>>

NextCalls == EnterCall

\* a call that is entered runs: the program is one thread
SpecCalls == InitCalls /\ [][NextCalls]_vars /\ WF_vars(EnterCall)

\* C22: every validation ends: after finitely many calls none is left and
\* the first call has returned or thrown, also on components that refer to
\* themselves or to each other.
C22_Terminates == <>(frames = <<>> /\ vResult # "none")

\* a validation against the self-referential Node, three objects deep, ended
\* without an error
C22_Witness ==
    /\ vSchema = [ref |-> Ref("Node")]
    /\ vData = JObj(("id" :> JStr(<<"a">>)) @@ ("name" :> JObj("name" :> JObj("id" :> JStr(<<"a">>)))))
    /\ frames = <<>>
    /\ vResult = Ok

====
